---------------------------- MODULE Spec2Model ----------------------------
(***************************************************************************)
(* A model of the temporal indexer (pavics/nctime.py), of the grid          *)
(* classifier, converters, nearest-point locator and rectilinear subsetter  *)
(* (pavics/geogrid.py) and of the calendars (calendars.py) of pyPavics.     *)
(*                                                                         *)
(* The functions are pure: a state holds the inputs of a call (the files,   *)
(* the grid or the calendar), the call that was made and what it returned   *)
(* or raised.                                                               *)
(* Indices in results are Python indices (0-based); TLA+ sequences are      *)
(* 1-based, so element k of a Python array is element k+1 of its sequence.  *)
(***************************************************************************)
EXTENDS Integers, Sequences, FiniteSets

VARIABLES nc_files, grid, calendar, call, result

vars == <<nc_files, grid, calendar, call, result>>

(***************************************************************************)
(* Bounds of the model.                                                     *)
(***************************************************************************)
MaxFiles == 2
MaxLen == 2
MaxTime == 3
MaxThreshold == 2

(***************************************************************************)
(* Python values.                                                           *)
(***************************************************************************)
\* None is the empty tuple, a given value x the one-element tuple <<x>>.
None == <<>>
Some(x) == <<x>>
Val(o) == o[1]

\* What a call produced: a returned value (a tuple) or a raised exception.
Return(v) == [kind |-> "return", exc |-> "", value |-> v]
Raise(e) == [kind |-> "raise", exc |-> e, value |-> <<>>]
NoResult == [kind |-> "none", exc |-> "", value |-> <<>>]

Abs(x) == IF x < 0 THEN -x ELSE x

\* Python's truth value of an optional number: None and 0 are false.
Truthy(o) == o # None /\ Val(o) # 0

RECURSIVE SortedSeq(_)
SortedSeq(S) ==
    IF S = {} THEN <<>>
    ELSE LET m == CHOOSE x \in S : \A y \in S : x <= y
         IN <<m>> \o SortedSeq(S \ {m})

RECURSIVE SeqsUpTo(_, _)
\* The sequences of length at most n over S.
SeqsUpTo(S, n) ==
    IF n = 0 THEN {<<>>}
    ELSE LET shorter == SeqsUpTo(S, n - 1)
         IN {<<>>} \cup {<<x>> \o s : x \in S, s \in shorter}

(***************************************************************************)
(* NetCDF files: the time variable of a file is its units and its values.   *)
(* The units are "days since <epoch>"; all files use the same calendar.     *)
(***************************************************************************)
TimeUnits == {"days since 2000-01-01", "days since 2000-01-02"}

\* The day number of the epoch of a units string.
Epoch(units) ==
    CASE units = "days since 2000-01-01" -> 0
      [] units = "days since 2000-01-02" -> 1

\* netCDF4.num2date and netCDF4.date2num, a date being its day number.
num2date(values, units) == [k \in DOMAIN values |-> values[k] + Epoch(units)]
date2num(dates, units) == [k \in DOMAIN dates |-> dates[k] - Epoch(units)]

\* The size of the time dimension of a file.
TimeSize(nc_file) == Len(nc_file.time)

\* The files whose dates are the sorted elements of a set of at most MaxLen
\* day numbers, in either units.
Files ==
    {[units |-> u, time |-> date2num(SortedSeq(S), u)] :
        u \in TimeUnits,
        S \in {T \in SUBSET (0..MaxTime) : Cardinality(T) <= MaxLen}}

Dates(nc_file) == num2date(nc_file.time, nc_file.units)

\* The last date of a file, or `last` if the file holds no time step.
LastDate(nc_file, last) ==
    IF TimeSize(nc_file) = 0 THEN last
    ELSE Dates(nc_file)[TimeSize(nc_file)]

RECURSIVE FileListsAfter(_, _)
\* The sequences of at most n files whose dates are all later than `last`,
\* increasing, and not overlapping from one file to the next.
FileListsAfter(n, last) ==
    IF n = 0 THEN {<<>>}
    ELSE {<<>>} \cup
         UNION {{<<f>> \o rest : rest \in FileListsAfter(n - 1, LastDate(f, last))} :
                   f \in {g \in Files : TimeSize(g) = 0 \/ Dates(g)[1] > last}}

\* The sequences of files the indexer is given: time axes increasing and
\* not overlapping from one file to the next (a file may hold no time step).
FileLists == FileListsAfter(MaxFiles, 0 - 1)

TimeQueries == (0 - 2)..(MaxTime + 2)
Thresholds == {None} \cup {Some(x) : x \in 0..MaxThreshold}
Ordinals == (0 - 1)..(MaxFiles * MaxLen + 1)

(***************************************************************************)
(* nctime.multiple_files_time_indice                                        *)
(***************************************************************************)
RECURSIVE MftiScan(_, _, _)
\* The loop, at file i (1-based) with the remaining ordinal t.
MftiScan(files, i, t) ==
    IF i > Len(files) THEN Raise("NotImplementedError")
    ELSE LET nt == TimeSize(files[i])
         IN IF t < nt THEN Return(<<i - 1, t>>)
            ELSE MftiScan(files, i + 1, t - nt)

RECURSIVE MftiScanInclusive(_, _, _)
\* MftiScan with the test t <= nt in place of t < nt.
MftiScanInclusive(files, i, t) ==
    IF i > Len(files) THEN Raise("NotImplementedError")
    ELSE LET nt == TimeSize(files[i])
         IN IF t <= nt THEN Return(<<i - 1, t>>)
            ELSE MftiScanInclusive(files, i + 1, t - nt)

multiple_files_time_indice_inclusive(files, t) ==
    IF t < 0 THEN Raise("NotImplementedError")
    ELSE MftiScanInclusive(files, 1, t)

\* multiple_files_time_indice without its test of a negative ordinal.
multiple_files_time_indice_unguarded(files, t) == MftiScan(files, 1, t)

multiple_files_time_indice(files, t) ==
    IF t < 0 THEN Raise("NotImplementedError")
    ELSE MftiScan(files, 1, t)

(***************************************************************************)
(* nctime._nearest_time_from_netcdf_time_units and nctime.nearest_time      *)
(***************************************************************************)
\* The time values of file i in the units of the first file.
ConvertedTime(files, i) ==
    IF files[i].units # files[1].units
    THEN date2num(num2date(files[i].time, files[i].units), files[1].units)
    ELSE files[i].time

\* ArgMinAbs taking the last index of a smallest |a[k] - t|.
ArgMinAbsLast(a, t) ==
    (CHOOSE k \in DOMAIN a :
        /\ \A m \in DOMAIN a : Abs(a[k] - t) <= Abs(a[m] - t)
        /\ \A m \in DOMAIN a : m > k => Abs(a[m] - t) > Abs(a[k] - t)) - 1

\* int(np.abs(a - t).argmin()): the first index of a smallest |a[k] - t|.
ArgMinAbs(a, t) ==
    (CHOOSE k \in DOMAIN a :
        /\ \A m \in DOMAIN a : Abs(a[k] - t) <= Abs(a[m] - t)
        /\ \A m \in DOMAIN a : m < k => Abs(a[m] - t) > Abs(a[k] - t)) - 1

\* PreviousIsNearest preferring the start of the current file on equal gaps.
PreviousIsStrictlyNearest(pdiff, ndiff) == pdiff < ndiff

\* The test between the end of the previous file and the start of the
\* current one: pdiff <= ndiff.
PreviousIsNearest(pdiff, ndiff) == pdiff <= ndiff

RECURSIVE NearestScan(_, _, _, _, _, _)
\* The loop, at file i (1-based); previous_end_time and previous_nt are
\* None before the first file.
NearestScan(files, t, threshold, i, previous_end_time, previous_nt) ==
    IF i > Len(files)
    THEN \* after the loop; i and end_time are unbound if there was no file
         IF Len(files) = 0 THEN Raise("UnboundLocalError")
         ELSE IF Truthy(threshold) /\ t - Val(previous_end_time) > Val(threshold)
              THEN Raise("NotImplementedError")
              ELSE Return(<<Len(files) - 1, Val(previous_nt) - 1>>)
    ELSE LET nctime == ConvertedTime(files, i)
         IN IF Len(nctime) = 0 THEN Raise("IndexError")
            ELSE LET start_time == nctime[1]
                     end_time == nctime[Len(nctime)]
                     next == NearestScan(files, t, threshold, i + 1,
                                         Some(end_time),
                                         Some(TimeSize(files[i])))
                 IN IF t >= start_time /\ t <= end_time
                    THEN LET tn == ArgMinAbs(nctime, t)
                         IN IF Truthy(threshold)
                               /\ Abs(nctime[tn + 1] - t) > Val(threshold)
                            THEN Raise("NotImplementedError")
                            ELSE Return(<<i - 1, tn>>)
                    ELSE IF t < start_time
                    THEN IF previous_end_time # None
                         THEN LET pdiff == Abs(Val(previous_end_time) - t)
                                  ndiff == Abs(start_time - t)
                              IN IF PreviousIsNearest(pdiff, ndiff)
                                 THEN IF Truthy(threshold)
                                         /\ pdiff > Val(threshold)
                                      THEN Raise("NotImplementedError")
                                      ELSE Return(<<i - 2, Val(previous_nt) - 1>>)
                                 ELSE IF Truthy(threshold)
                                         /\ ndiff > Val(threshold)
                                      THEN Raise("NotImplementedError")
                                      ELSE Return(<<i - 1, 0>>)
                         ELSE IF Truthy(threshold)
                                 /\ start_time - t > Val(threshold)
                              THEN Raise("NotImplementedError")
                              ELSE next
                    ELSE next

_nearest_time_from_netcdf_time_units(files, t, threshold) ==
    NearestScan(files, t, threshold, 1, None, None)

\* t is a number here, so nearest_time hands it over as it is.
nearest_time(files, t, threshold) ==
    _nearest_time_from_netcdf_time_units(files, t, threshold)

(***************************************************************************)
(* The temporal indexer as a state machine: one call on the given files.    *)
(* The functions keep no state between calls, so a behaviour follows one    *)
(* call and the behaviours together cover every call on every input.        *)
(***************************************************************************)
NoGrid == <<>>
NoCalendar == <<>>
NoCall == [op |-> "none", t |-> 0, threshold |-> None]

InitTime ==
    /\ nc_files \in FileLists
    /\ grid = NoGrid
    /\ calendar = NoCalendar
    /\ call = NoCall
    /\ result = NoResult

CallNearestTime ==
    \E t \in TimeQueries, threshold \in Thresholds :
        /\ call = NoCall
        /\ call' = [op |-> "nearest_time", t |-> t, threshold |-> threshold]
        /\ result' = nearest_time(nc_files, t, threshold)
        /\ UNCHANGED <<nc_files, grid, calendar>>

CallMultipleFilesTimeIndice ==
    \E t \in Ordinals :
        /\ call = NoCall
        /\ call' = [op |-> "multiple_files_time_indice", t |-> t,
                    threshold |-> None]
        /\ result' = multiple_files_time_indice(nc_files, t)
        /\ UNCHANGED <<nc_files, grid, calendar>>

NextTime == CallNearestTime \/ CallMultipleFilesTimeIndice

SpecTime == InitTime /\ [][NextTime]_vars

(***************************************************************************)
(* Grids (pavics/geogrid.py).  A coordinate is a whole number of tenths of  *)
(* a degree, so that 174.9 degrees is 1749.  A numpy array is its shape and *)
(* its data: a sequence for one dimension, a sequence of rows for two.      *)
(***************************************************************************)
Deg(d) == d * 10

Array1(values) == [shape |-> <<Len(values)>>, data |-> values]
Array2(rows) == [shape |-> <<Len(rows), Len(rows[1])>>, data |-> rows]
Size(a) == IF Len(a.shape) = 1 THEN a.shape[1] ELSE a.shape[1] * a.shape[2]

\* The elements of an array, as a set.
Elements(a) ==
    IF Len(a.shape) = 1 THEN {a.data[k] : k \in 1..a.shape[1]}
    ELSE {a.data[r][c] : r \in 1..a.shape[1], c \in 1..a.shape[2]}

(***************************************************************************)
(* geogrid.distance_lon_lat: the great-circle distance in metres, by the    *)
(* spherical law of cosines, on the angles whose sine and cosine are exact  *)
(* (the multiples of 90 degrees); the distance is then 0, a quarter or a    *)
(* half of the circumference of the sphere of radius 6371000 m.             *)
(***************************************************************************)
OnLattice(angle) == angle % Deg(90) = 0

Cos(angle) ==
    CASE angle % Deg(360) = 0 -> 1
      [] angle % Deg(360) = Deg(90) -> 0
      [] angle % Deg(360) = Deg(180) -> -1
      [] angle % Deg(360) = Deg(270) -> 0

Sin(angle) == Cos(angle - Deg(90))

\* 6371000.*np.arccos(w), to the metre.
EarthArc(w) ==
    CASE w = 1 -> 0
      [] w = 0 -> 10007543
      [] w = -1 -> 20015087

\* One element of distance_lon_lat.
PointDistance(lon, lat, longitude, latitude) ==
    LET warp1 == Sin(lat) * Sin(latitude)
        warp2 == Cos(lat) * Cos(latitude)
        warp3 == Cos(longitude - lon)
        warp4 == warp1 + warp2 * warp3
        clamped == IF warp4 > 1 THEN 1 ELSE IF warp4 < -1 THEN -1 ELSE warp4
    IN EarthArc(clamped)

\* distance_lon_lat on arrays of the same shape: an array of that shape.
distance_lon_lat(longitudes, latitudes, longitude, latitude) ==
    IF Len(longitudes.shape) = 1
    THEN Array1([k \in 1..longitudes.shape[1] |->
                    PointDistance(longitudes.data[k], latitudes.data[k],
                                  longitude, latitude)])
    ELSE [shape |-> longitudes.shape,
          data |-> [r \in 1..longitudes.shape[1] |->
                      [c \in 1..longitudes.shape[2] |->
                          PointDistance(longitudes.data[r][c],
                                        latitudes.data[r][c],
                                        longitude, latitude)]]]

\* d.min()
ArrayMin(a) == CHOOSE x \in Elements(a) : \A y \in Elements(a) : x <= y

\* np.where(a == v)[0][0] on one dimension: the first index holding v.
FirstIndex1(a, v) ==
    (CHOOSE k \in 1..a.shape[1] :
        a.data[k] = v /\ \A m \in 1..(k - 1) : a.data[m] # v) - 1

\* FirstIndex2 in column-major order.
FirstIndex2ColumnMajor(a, v) ==
    LET hits == {p \in (1..a.shape[1]) \X (1..a.shape[2]) :
                    a.data[p[1]][p[2]] = v}
        first == CHOOSE p \in hits :
                    \A q \in hits : p[2] < q[2] \/ (p[2] = q[2] /\ p[1] <= q[1])
    IN <<first[1] - 1, first[2] - 1>>

\* (np.where(a == v)[0][0], np.where(a == v)[1][0]) on two dimensions: the
\* first index pair holding v in row-major order.
FirstIndex2(a, v) ==
    LET hits == {p \in (1..a.shape[1]) \X (1..a.shape[2]) :
                    a.data[p[1]][p[2]] = v}
        first == CHOOSE p \in hits :
                    \A q \in hits : p[1] < q[1] \/ (p[1] = q[1] /\ p[2] <= q[2])
    IN <<first[1] - 1, first[2] - 1>>

(***************************************************************************)
(* geogrid.detect_grid                                                      *)
(***************************************************************************)
\* StrictlyMonotonic with <= and >= in place of < and >.
Monotonic(a) ==
    \/ \A k \in 1..(a.shape[1] - 1) : a.data[k + 1] - a.data[k] <= 0
    \/ \A k \in 1..(a.shape[1] - 1) : a.data[k + 1] - a.data[k] >= 0

\* np.all(np.diff(a) < 0) or np.all(np.diff(a) > 0), a of one dimension.
StrictlyMonotonic(a) ==
    \/ \A k \in 1..(a.shape[1] - 1) : a.data[k + 1] - a.data[k] < 0
    \/ \A k \in 1..(a.shape[1] - 1) : a.data[k + 1] - a.data[k] > 0

\* The branch of two one-dimensional arrays with lon_dimensions given.
\* DetectNamedAxesAnySize is DetectNamedAxes without its test of the sizes.
DetectNamedAxesAnySize(lon, lat, lon_dimensions, lat_dimensions) ==
    IF lon_dimensions = lat_dimensions
    THEN Return(<<"list_of_2d_points">>)
    ELSE IF StrictlyMonotonic(lon) /\ StrictlyMonotonic(lat)
         THEN Return(<<"rectilinear_2d_centroids">>)
         ELSE Raise("GeogridError")

DetectNamedAxes(lon, lat, lon_dimensions, lat_dimensions) ==
    IF lon_dimensions = lat_dimensions /\ Size(lon) = Size(lat)
    THEN Return(<<"list_of_2d_points">>)
    ELSE IF lon_dimensions # lat_dimensions
    THEN LET c1 == StrictlyMonotonic(lon)
             c2 == StrictlyMonotonic(lat)
         IN IF c1 /\ c2
            THEN Return(<<"rectilinear_2d_centroids">>)
            ELSE Raise("GeogridError")
    ELSE Raise("GeogridError")

\* detect_grid recognising the CF bounds from the names of the longitude
\* dimensions alone.
detect_grid_by_longitude_names(lon, lat, lon_dimensions, lat_dimensions) ==
    IF Len(lon.shape) = 2 /\ Len(lat.shape) = 2
    THEN IF lon_dimensions = Some(<<"lon", "bnds">>)
         THEN Return(<<"rectilinear_2d_bounds">>)
         ELSE IF lon.shape = lat.shape
         THEN Return(<<"irregular_2d_centroids">>)
         ELSE Raise("GeogridError")
    ELSE IF Len(lon.shape) = 1 /\ Len(lat.shape) = 1
    THEN IF lon_dimensions # None
         THEN DetectNamedAxes(lon, lat, lon_dimensions, lat_dimensions)
         ELSE IF StrictlyMonotonic(lon) /\ StrictlyMonotonic(lat)
              THEN Return(<<"rectilinear_2d_centroids">>)
              ELSE IF Size(lon) = Size(lat)
              THEN Return(<<"list_of_2d_points">>)
              ELSE Raise("GeogridError")
    ELSE Raise("GeogridError")

detect_grid(lon, lat, lon_dimensions, lat_dimensions) ==
    IF Len(lon.shape) = 2 /\ Len(lat.shape) = 2
    THEN IF /\ lon_dimensions = Some(<<"lon", "bnds">>)
            /\ lat_dimensions = Some(<<"lat", "bnds">>)
         THEN Return(<<"rectilinear_2d_bounds">>)
         ELSE IF lon.shape = lat.shape
         THEN IF /\ lon_dimensions = Some(<<"yc", "xc">>)
                 /\ lat_dimensions = Some(<<"yc", "xc">>)
              THEN Return(<<"irregular_2d_centroids">>)
              ELSE IF /\ lon_dimensions = Some(<<"rlat", "rlon">>)
                      /\ lat_dimensions = Some(<<"rlat", "rlon">>)
              THEN Return(<<"irregular_2d_centroids">>)
              ELSE Return(<<"irregular_2d_centroids">>)
         ELSE Raise("GeogridError")
    ELSE IF Len(lon.shape) = 1 /\ Len(lat.shape) = 1
    THEN IF lon_dimensions # None
         THEN DetectNamedAxes(lon, lat, lon_dimensions, lat_dimensions)
         ELSE LET c1 == StrictlyMonotonic(lon)
                  c2 == StrictlyMonotonic(lat)
              IN IF c1 /\ c2
                 THEN Return(<<"rectilinear_2d_centroids">>)
                 ELSE IF Size(lon) = Size(lat)
                 THEN Return(<<"list_of_2d_points">>)
                 ELSE Raise("GeogridError")
    ELSE Raise("GeogridError")

(***************************************************************************)
(* Centroids from vertices and vertices from bounds.  The halves and the    *)
(* quarters are exact: the coordinates of the model are multiples of a      *)
(* whole degree (10 tenths), those of a quadrilateral mesh of 90 degrees.   *)
(***************************************************************************)
\* (v[0:-1] + v[1:])/2.0 on one axis.
AxisCentroids(v) ==
    Array1([k \in 1..(v.shape[1] - 1) |-> (v.data[k] + v.data[k + 1]) \div 2])

rectilinear_vertices_to_centroids(lon_vertices, lat_vertices) ==
    <<AxisCentroids(lon_vertices), AxisCentroids(lat_vertices)>>

\* The average of the 4 vertices around each cell, on one coordinate.
QuadCentroids(v) ==
    [shape |-> <<v.shape[1] - 1, v.shape[2] - 1>>,
     data |-> [r \in 1..(v.shape[1] - 1) |->
                 [c \in 1..(v.shape[2] - 1) |->
                     (v.data[r][c] + v.data[r + 1][c] + v.data[r + 1][c + 1]
                        + v.data[r][c + 1]) \div 4]]]

quadrilaterals_mesh_to_centroids(x_vertices, y_vertices) ==
    <<QuadCentroids(x_vertices), QuadCentroids(y_vertices)>>

\* list(bnds[:,0]) + [bnds[-1,1]] on one axis.
BoundsVertices(bnds) ==
    Array1([k \in 1..(bnds.shape[1] + 1) |->
               IF k <= bnds.shape[1] THEN bnds.data[k][1]
               ELSE bnds.data[bnds.shape[1]][2]])

rectilinear_2d_bounds_to_vertices(lon_bnds, lat_bnds) ==
    <<BoundsVertices(lon_bnds), BoundsVertices(lat_bnds)>>

(***************************************************************************)
(* The nearest-point searches of geogrid.py.                                *)
(***************************************************************************)
_find_nearest_from_list_of_points(lon_points, lat_points, lon_point, lat_point, maximum_distance) ==
    LET d == distance_lon_lat(lon_points, lat_points, lon_point, lat_point)
        minimum_distance == ArrayMin(d)
    IN IF maximum_distance # None /\ minimum_distance > Val(maximum_distance)
       THEN Raise("GeogridError")
       ELSE Return(<<FirstIndex1(d, ArrayMin(d))>>)

\* LongitudeDistance without the way round the globe.
LongitudeDistanceOneWay(lon_centroid, lon_point) ==
    Abs(lon_centroid - lon_point) % Deg(360)

\* np.mod(np.abs(lon_centroids - lon_point), 360), then 360 minus it where
\* it is above 180.
LongitudeDistance(lon_centroid, lon_point) ==
    LET distance_lon == Abs(lon_centroid - lon_point) % Deg(360)
    IN IF distance_lon > Deg(180) THEN Abs(distance_lon - Deg(360))
       ELSE distance_lon

_find_nearest_from_rectilinear_centroids(lon_centroids, lat_centroids, lon_point, lat_point, maximum_distance) ==
    LET distance_lon ==
            Array1([k \in 1..lon_centroids.shape[1] |->
                       LongitudeDistance(lon_centroids.data[k], lon_point)])
        i == FirstIndex1(distance_lon, ArrayMin(distance_lon))
        distance_lat ==
            Array1([k \in 1..lat_centroids.shape[1] |->
                       Abs(lat_centroids.data[k] - lat_point)])
        j == FirstIndex1(distance_lat, ArrayMin(distance_lat))
        minimum_distance ==
            PointDistance(lon_centroids.data[i + 1], lat_centroids.data[j + 1],
                          lon_point, lat_point)
    IN IF maximum_distance # None /\ minimum_distance > Val(maximum_distance)
       THEN Raise("GeogridError")
       ELSE Return(<<i, j>>)

\* A Python call of _find_nearest_from_rectilinear_centroids with the given
\* positional arguments: the first four parameters have no default, so a
\* call with fewer arguments raises TypeError.
Call_find_nearest_from_rectilinear_centroids(args) ==
    IF Len(args) < 4 THEN Raise("TypeError")
    ELSE _find_nearest_from_rectilinear_centroids(
             args[1], args[2], args[3], args[4],
             IF Len(args) >= 5 THEN args[5] ELSE None)

\* The centroids are computed and the centroid search is then called with
\* the two centroid arrays only.
_find_nearest_from_rectilinear_vertices(lon_vertices, lat_vertices, lon_point, lat_point, maximum_distance) ==
    LET centroids == rectilinear_vertices_to_centroids(lon_vertices,
                                                       lat_vertices)
        lon_centroids == centroids[1]
        lat_centroids == centroids[2]
    IN Call_find_nearest_from_rectilinear_centroids(
           <<lon_centroids, lat_centroids>>)

_find_nearest_from_irregular_centroids(lon_centroids, lat_centroids, lon_point, lat_point, maximum_distance) ==
    LET d == distance_lon_lat(lon_centroids, lat_centroids,
                              lon_point, lat_point)
        minimum_distance == ArrayMin(d)
    IN IF maximum_distance # None /\ minimum_distance > Val(maximum_distance)
       THEN Raise("GeogridError")
       ELSE Return(FirstIndex2(d, ArrayMin(d)))

_find_nearest_from_irregular_vertices(lon_vertices, lat_vertices, lon_point, lat_point, maximum_distance) ==
    LET centroids == quadrilaterals_mesh_to_centroids(lon_vertices,
                                                      lat_vertices)
    IN _find_nearest_from_irregular_centroids(centroids[1], centroids[2],
                                              lon_point, lat_point,
                                              maximum_distance)

\* The dispatch of find_nearest on a grid type.
FindNearestOfType(grid_type, longitudes, latitudes, longitude, latitude, maximum_distance) ==
    CASE grid_type = "list_of_2d_points" ->
            _find_nearest_from_list_of_points(
                longitudes, latitudes, longitude, latitude, maximum_distance)
      [] grid_type = "rectilinear_2d_centroids" ->
            _find_nearest_from_rectilinear_centroids(
                longitudes, latitudes, longitude, latitude, maximum_distance)
      [] grid_type = "rectilinear_2d_bounds" ->
            LET vertices == rectilinear_2d_bounds_to_vertices(longitudes,
                                                              latitudes)
            IN _find_nearest_from_rectilinear_vertices(
                   vertices[1], vertices[2], longitude, latitude,
                   maximum_distance)
      [] grid_type = "rectilinear_2d_vertices" ->
            _find_nearest_from_rectilinear_vertices(
                longitudes, latitudes, longitude, latitude, maximum_distance)
      [] grid_type = "irregular_2d_centroids" ->
            _find_nearest_from_irregular_centroids(
                longitudes, latitudes, longitude, latitude, maximum_distance)
      [] grid_type = "irregular_2d_vertices" ->
            _find_nearest_from_irregular_vertices(
                longitudes, latitudes, longitude, latitude, maximum_distance)
      [] OTHER -> Return(None)

find_nearest(longitudes, latitudes, longitude, latitude, maximum_distance, grid_type, lon_dimensions, lat_dimensions) ==
    LET detected ==
            IF grid_type = None
            THEN detect_grid(longitudes, latitudes, lon_dimensions,
                             lat_dimensions)
            ELSE Return(grid_type)
    IN IF detected.kind = "raise" THEN detected
       ELSE FindNearestOfType(Val(detected.value), longitudes, latitudes,
                              longitude, latitude, maximum_distance)

(***************************************************************************)
(* The grids and the calls of the model.                                    *)
(***************************************************************************)
MaxAxis == 2
MaxPoints == 4

NonEmptySeqsUpTo(S, n) == SeqsUpTo(S, n) \ {<<>>}

LonLattice == {Deg(0 - 90), 0, Deg(270)}
LatLattice == {Deg(0 - 90), 0, Deg(90)}

\* Two coordinate arrays of one dimension: the centroids or the vertices of
\* a rectilinear grid or, when of the same size, a list of points.
AxisGrids ==
    {[longitudes |-> Array1(x), latitudes |-> Array1(y)] :
        x \in NonEmptySeqsUpTo(LonLattice, MaxAxis),
        y \in NonEmptySeqsUpTo(LatLattice, MaxAxis)}

\* The CF bounds (N x 2) of the cells between the vertices v, which are
\* strictly monotonic.
BoundsOf(v) == Array2([k \in 1..(Len(v) - 1) |-> <<v[k], v[k + 1]>>])

BoundsGrids ==
    {[longitudes |-> BoundsOf(x), latitudes |-> BoundsOf(y)] :
        x \in {v \in NonEmptySeqsUpTo(LonLattice, MaxAxis) :
                  Len(v) >= 2 /\ StrictlyMonotonic(Array1(v))},
        y \in {v \in NonEmptySeqsUpTo(LatLattice, MaxAxis) :
                  Len(v) >= 2 /\ StrictlyMonotonic(Array1(v))}}

\* (longitude, latitude) of the points of the two-dimensional grids.
MeshPoints == {<<0, 0>>, <<Deg(90), 0>>, <<0, Deg(90)>>}

\* The points p laid out row by row in r rows and c columns.
Mesh(p, r, c) ==
    [longitudes |-> Array2([i \in 1..r |-> [j \in 1..c |-> p[(i - 1) * c + j][1]]]),
     latitudes |-> Array2([i \in 1..r |-> [j \in 1..c |-> p[(i - 1) * c + j][2]]])]

MeshGrids ==
    {Mesh(p[1], p[2], Len(p[1]) \div p[2]) :
        p \in {q \in NonEmptySeqsUpTo(MeshPoints, MaxPoints) \X (1..MaxPoints) :
                  Len(q[1]) % q[2] = 0}}

RECURSIVE Range(_, _)
\* The sequence a, a+1, ..., b.
Range(a, b) == IF a > b THEN <<>> ELSE <<a>> \o Range(a + 1, b)

\* The grid of tests/test_geogrid.py: longitudes 180..187, latitudes 0..5.
TestGrids ==
    {[longitudes |-> Array1([k \in 1..8 |-> Deg(Range(180, 187)[k])]),
      latitudes |-> Array1([k \in 1..6 |-> Deg(Range(0, 5)[k])])]}

Grids == AxisGrids \cup BoundsGrids \cup MeshGrids \cup TestGrids

\* The query points: lattice points and the points of the tests,
\* (-174.9, 1) and (-175.1, 1).
QueryPoints ==
    ({Deg(0 - 90), 0, Deg(180)} \X {0, Deg(90)})
        \cup {<<0 - 1749, Deg(1)>>, <<0 - 1751, Deg(1)>>}

\* A quarter of the circumference, in metres, is a possible limit.
MaximumDistances == {None, Some(0), Some(EarthArc(0))}

GridTypes ==
    {"list_of_2d_points", "rectilinear_2d_centroids", "rectilinear_2d_bounds",
     "rectilinear_2d_vertices", "irregular_2d_centroids",
     "irregular_2d_vertices"}

\* The grid types two arrays can be given as, from their shapes.
FitsType(g, grid_type) ==
    LET lon == g.longitudes
        lat == g.latitudes
        one == Len(lon.shape) = 1 /\ Len(lat.shape) = 1
        two == Len(lon.shape) = 2 /\ Len(lat.shape) = 2
    IN CASE grid_type = "list_of_2d_points" -> one /\ lon.shape = lat.shape
         [] grid_type = "rectilinear_2d_centroids" -> one
         [] grid_type = "rectilinear_2d_vertices" ->
                /\ one /\ lon.shape[1] >= 2 /\ lat.shape[1] >= 2
                /\ StrictlyMonotonic(lon) /\ StrictlyMonotonic(lat)
         [] grid_type = "rectilinear_2d_bounds" ->
                two /\ lon.shape[2] = 2 /\ lat.shape[2] = 2
         [] grid_type = "irregular_2d_centroids" -> two /\ lon.shape = lat.shape
         [] grid_type = "irregular_2d_vertices" ->
                /\ two /\ lon.shape = lat.shape
                /\ lon.shape[1] >= 2 /\ lon.shape[2] >= 2

\* The dimension names an array may come with.
DimensionNames(a) ==
    IF Len(a.shape) = 1
    THEN {None, Some(<<"lon">>), Some(<<"lat">>), Some(<<"station">>)}
    ELSE {None, Some(<<"lon", "bnds">>), Some(<<"lat", "bnds">>),
          Some(<<"yc", "xc">>), Some(<<"rlat", "rlon">>)}

\* The centroids a search of the given type looks through.
SearchedCentroids(g, grid_type) ==
    CASE grid_type \in {"list_of_2d_points", "rectilinear_2d_centroids",
                        "irregular_2d_centroids"} ->
            <<g.longitudes, g.latitudes>>
      [] grid_type = "rectilinear_2d_vertices" ->
            rectilinear_vertices_to_centroids(g.longitudes, g.latitudes)
      [] grid_type = "rectilinear_2d_bounds" ->
            LET v == rectilinear_2d_bounds_to_vertices(g.longitudes, g.latitudes)
            IN rectilinear_vertices_to_centroids(v[1], v[2])
      [] grid_type = "irregular_2d_vertices" ->
            quadrilaterals_mesh_to_centroids(g.longitudes, g.latitudes)

\* The calls whose great-circle distances the model can compute: a search
\* over a list or a mesh computes distances whatever the limit, a
\* rectilinear search needs them with a limit only.
Computable(g, grid_type, point, maximum_distance) ==
    LET c == SearchedCentroids(g, grid_type)
    IN (\/ maximum_distance # None
        \/ grid_type \in {"list_of_2d_points", "irregular_2d_centroids",
                          "irregular_2d_vertices"})
       => /\ OnLattice(point[1]) /\ OnLattice(point[2])
          /\ \A x \in Elements(c[1]) \cup Elements(c[2]) : OnLattice(x)

(***************************************************************************)
(* The grid functions as a state machine: one call of detect_grid or of     *)
(* find_nearest on the given coordinate arrays.                             *)
(***************************************************************************)
InitGrid ==
    /\ nc_files = <<>>
    /\ grid \in Grids
    /\ calendar = NoCalendar
    /\ call = NoCall
    /\ result = NoResult

CallDetectGrid ==
    \E lon_dimensions \in DimensionNames(grid.longitudes),
       lat_dimensions \in DimensionNames(grid.latitudes) :
        /\ call = NoCall
        /\ call' = [op |-> "detect_grid",
                    lon_dimensions |-> lon_dimensions,
                    lat_dimensions |-> lat_dimensions]
        /\ result' = detect_grid(grid.longitudes, grid.latitudes,
                                 lon_dimensions, lat_dimensions)
        /\ UNCHANGED <<nc_files, grid, calendar>>

\* find_nearest with the grid type given.
CallFindNearest ==
    \E point \in QueryPoints, maximum_distance \in MaximumDistances,
       grid_type \in {t \in GridTypes : FitsType(grid, t)} :
        /\ call = NoCall
        /\ Computable(grid, grid_type, point, maximum_distance)
        /\ call' = [op |-> "find_nearest",
                    longitude |-> point[1], latitude |-> point[2],
                    maximum_distance |-> maximum_distance,
                    grid_type |-> Some(grid_type),
                    lon_dimensions |-> None, lat_dimensions |-> None]
        /\ result' = find_nearest(grid.longitudes, grid.latitudes,
                                  point[1], point[2], maximum_distance,
                                  Some(grid_type), None, None)
        /\ UNCHANGED <<nc_files, grid, calendar>>

\* find_nearest with no grid type: detect_grid decides, from the arrays and
\* from the dimension names when they are given.
CallFindNearestDetecting ==
    \E point \in QueryPoints, maximum_distance \in MaximumDistances,
       named \in BOOLEAN :
        LET lon_dimensions ==
                IF ~named THEN None
                ELSE IF Len(grid.longitudes.shape) = 1 THEN Some(<<"lon">>)
                ELSE Some(<<"lon", "bnds">>)
            lat_dimensions ==
                IF ~named THEN None
                ELSE IF Len(grid.latitudes.shape) = 1 THEN Some(<<"lat">>)
                ELSE Some(<<"lat", "bnds">>)
            detected == detect_grid(grid.longitudes, grid.latitudes,
                                    lon_dimensions, lat_dimensions)
        IN /\ call = NoCall
           /\ detected.kind = "return" =>
                 /\ FitsType(grid, Val(detected.value))
                 /\ Computable(grid, Val(detected.value), point,
                               maximum_distance)
           /\ call' = [op |-> "find_nearest",
                       longitude |-> point[1], latitude |-> point[2],
                       maximum_distance |-> maximum_distance,
                       grid_type |-> None,
                       lon_dimensions |-> lon_dimensions,
                       lat_dimensions |-> lat_dimensions]
           /\ result' = find_nearest(grid.longitudes, grid.latitudes,
                                     point[1], point[2], maximum_distance,
                                     None, lon_dimensions, lat_dimensions)
           /\ UNCHANGED <<nc_files, grid, calendar>>

NextGrid == CallDetectGrid \/ CallFindNearest \/ CallFindNearestDetecting

SpecGrid == InitGrid /\ [][NextGrid]_vars

(***************************************************************************)
(* Properties of the temporal indexer.                                      *)
(***************************************************************************)
\* There is a file and every file holds at least one time step.
AllNonEmpty ==
    /\ Len(nc_files) > 0
    /\ \A i \in 1..Len(nc_files) : TimeSize(nc_files[i]) > 0

\* The (file_index, local_index) pairs that designate a time step.
IndexPairs ==
    UNION {{<<i - 1, j - 1>> : j \in 1..TimeSize(nc_files[i])} :
              i \in 1..Len(nc_files)}

\* The time value a pair designates, in the units of the first file (the
\* units of t).
TimeAt(p) == ConvertedTime(nc_files, p[1] + 1)[p[2] + 1]

\* The distance from t to the closest time value of all files.
ClosestGap ==
    LET gaps == {Abs(TimeAt(p) - call.t) : p \in IndexPairs}
    IN CHOOSE g \in gaps : \A h \in gaps : g <= h

LastPair ==
    <<Len(nc_files) - 1, TimeSize(nc_files[Len(nc_files)]) - 1>>

\* C1: with no threshold, on files with increasing, non-overlapping time
\* axes, nearest_time returns a pair whose time value is the closest to t of
\* all time values of all files: (0, 0) when t is before the first value
\* and (last file, last index) when t is after the last one.
ClaimC1 ==
    (call.op = "nearest_time" /\ call.threshold = None /\ AllNonEmpty) =>
        /\ result.kind = "return"
        /\ result.value \in IndexPairs
        /\ Abs(TimeAt(result.value) - call.t) = ClosestGap
        /\ call.t < TimeAt(<<0, 0>>) => result.value = <<0, 0>>
        /\ call.t > TimeAt(LastPair) => result.value = LastPair

\* C2: with a threshold, every pair nearest_time returns designates a time
\* value at most the threshold away from t, and the call raises whenever
\* the threshold is below the distance from t to the closest time value.
\* (Stated for the thresholds the code takes as given, the non-zero ones: a
\* threshold of 0 is false in Python and is treated as no threshold.)
ClaimC2 ==
    (call.op = "nearest_time" /\ Truthy(call.threshold) /\ AllNonEmpty) =>
        /\ result.kind = "return" =>
              /\ result.value \in IndexPairs
              /\ Abs(TimeAt(result.value) - call.t) <= Val(call.threshold)
        /\ Val(call.threshold) < ClosestGap => result.kind = "raise"

\* The number of time steps of the files before file i (1-based).
RECURSIVE StepsBefore(_)
StepsBefore(i) ==
    IF i <= 1 THEN 0 ELSE StepsBefore(i - 1) + TimeSize(nc_files[i - 1])

TotalSteps == StepsBefore(Len(nc_files) + 1)

\* C3: for an ordinal t with 0 <= t < total number of time steps,
\* multiple_files_time_indice returns the one pair (i, j) with 0 <= j < n_i
\* and n_0 + ... + n_(i-1) + j = t; files without time steps are skipped.
TheoremC3 ==
    (/\ call.op = "multiple_files_time_indice"
     /\ call.t >= 0 /\ call.t < TotalSteps) =>
        /\ result.kind = "return"
        /\ result.value \in IndexPairs
        /\ \A p \in IndexPairs :
              (StepsBefore(p[1] + 1) + p[2] = call.t) <=> (p = result.value)

\* An ordinal resolved into a later file, past a file without time steps.
WitnessC3 ==
    /\ call.op = "multiple_files_time_indice"
    /\ result.kind = "return"
    /\ result.value[1] >= 1 /\ result.value[2] >= 1
    /\ \E i \in 1..result.value[1] : TimeSize(nc_files[i]) = 0

\* C4: multiple_files_time_indice raises, returning no pair, when t < 0 and
\* when t >= total number of time steps; a pair it returns designates a
\* time step of its file.
TheoremC4 ==
    call.op = "multiple_files_time_indice" =>
        /\ (call.t < 0 \/ call.t >= TotalSteps) =>
              result.kind = "raise" /\ result.value = <<>>
        /\ result.kind = "return" => result.value \in IndexPairs

\* The first ordinal past the end of files that do hold time steps.
WitnessC4 ==
    /\ call.op = "multiple_files_time_indice"
    /\ TotalSteps > 0 /\ call.t = TotalSteps
    /\ result.kind = "raise"

(***************************************************************************)
(* Properties of the nearest-point locator.                                 *)
(***************************************************************************)
\* The grid type a call of find_nearest searches under: the one given, or
\* the one detect_grid finds.
SearchType ==
    IF call.grid_type # None THEN Val(call.grid_type)
    ELSE LET detected == detect_grid(grid.longitudes, grid.latitudes,
                                     call.lon_dimensions, call.lat_dimensions)
         IN IF detected.kind = "return" THEN Val(detected.value)
            ELSE "unknown"

\* d mod 360, replaced by 360 minus it when above 180, d = |lon_i - lon_point|.
CircularDifference(lon_i, lon_point) ==
    LET d == Abs(lon_i - lon_point) % Deg(360)
    IN IF d > Deg(180) THEN Deg(360) - d ELSE d

\* k (0-based) is the first index of axis a at which f is smallest.
FirstSmallest(k, a, f(_)) ==
    /\ k \in 0..(a.shape[1] - 1)
    /\ \A m \in 1..a.shape[1] : f(a.data[k + 1]) <= f(a.data[m])
    /\ \A m \in 1..k : f(a.data[m]) > f(a.data[k + 1])

\* C5: on rectilinear centroids the search is done on each axis alone: the
\* longitude index is the first one of smallest circular difference to the
\* query longitude, the latitude index the first one of smallest absolute
\* difference to the query latitude; with no maximum distance an index is
\* returned, and on longitudes 180..187, latitudes 0..5, the query
\* (-174.9, 1) gives (5, 1).
TheoremC5 ==
    (call.op = "find_nearest" /\ SearchType = "rectilinear_2d_centroids") =>
        /\ call.maximum_distance = None => result.kind = "return"
        /\ result.kind = "return" =>
              LET CircularToQuery(x) == CircularDifference(x, call.longitude)
                  AbsoluteToQuery(y) == Abs(y - call.latitude)
              IN /\ Len(result.value) = 2
                 /\ FirstSmallest(result.value[1], grid.longitudes,
                                  CircularToQuery)
                 /\ FirstSmallest(result.value[2], grid.latitudes,
                                  AbsoluteToQuery)
        /\ (/\ grid \in TestGrids
            /\ call.longitude = 0 - 1749 /\ call.latitude = Deg(1)) =>
              result = Return(<<5, 1>>)

\* The query (-174.9, 1) on the centroids 180..187 x 0..5: the nearest
\* meridian, 185, is found across the antimeridian.
WitnessC5 ==
    /\ call.op = "find_nearest" /\ SearchType = "rectilinear_2d_centroids"
    /\ grid \in TestGrids
    /\ call.longitude = 0 - 1749 /\ call.latitude = Deg(1)
    /\ result = Return(<<5, 1>>)

\* The great-circle distance from the query point to the point of the
\* grid at index p (0-based; one index for a list, two for a mesh).
DistanceToQuery(p) ==
    IF Len(p) = 1
    THEN PointDistance(grid.longitudes.data[p[1] + 1],
                       grid.latitudes.data[p[1] + 1],
                       call.longitude, call.latitude)
    ELSE PointDistance(grid.longitudes.data[p[1] + 1][p[2] + 1],
                       grid.latitudes.data[p[1] + 1][p[2] + 1],
                       call.longitude, call.latitude)

\* The indices of the points of the grid, and their storage order.
PointIndices ==
    IF Len(grid.longitudes.shape) = 1
    THEN {<<k>> : k \in 0..(grid.longitudes.shape[1] - 1)}
    ELSE (0..(grid.longitudes.shape[1] - 1))
             \X (0..(grid.longitudes.shape[2] - 1))

StoredBefore(p, q) ==
    IF Len(p) = 1 THEN p[1] < q[1]
    ELSE p[1] < q[1] \/ (p[1] = q[1] /\ p[2] < q[2])

\* C6: on a list of points and on irregular centroids the index returned is
\* that of a point at the smallest distance to the query point, the first
\* such point in storage (row-major) order; several nearest points are no
\* error: with no maximum distance an index is always returned.
TheoremC6 ==
    (/\ call.op = "find_nearest"
     /\ SearchType \in {"list_of_2d_points", "irregular_2d_centroids"}) =>
        /\ call.maximum_distance = None => result.kind = "return"
        /\ result.kind = "return" =>
              /\ result.value \in PointIndices
              /\ \A q \in PointIndices :
                    /\ DistanceToQuery(result.value) <= DistanceToQuery(q)
                    /\ StoredBefore(q, result.value) =>
                          DistanceToQuery(q) > DistanceToQuery(result.value)

\* Two nearest centroids of a mesh, (0, 1) and (1, 0): the one of the first
\* row is returned.
WitnessC6 ==
    /\ call.op = "find_nearest" /\ SearchType = "irregular_2d_centroids"
    /\ grid.longitudes.shape = <<2, 2>>
    /\ result = Return(<<0, 1>>)
    /\ DistanceToQuery(<<1, 0>>) = DistanceToQuery(<<0, 1>>)
    /\ DistanceToQuery(<<1, 1>>) > DistanceToQuery(<<0, 1>>)

\* The centroid search of the topology of SearchType, on centroids c.
CentroidSearch(c, maximum_distance) ==
    CASE SearchType = "list_of_2d_points" ->
            _find_nearest_from_list_of_points(
                c[1], c[2], call.longitude, call.latitude, maximum_distance)
      [] SearchType \in {"rectilinear_2d_centroids", "rectilinear_2d_bounds",
                         "rectilinear_2d_vertices"} ->
            _find_nearest_from_rectilinear_centroids(
                c[1], c[2], call.longitude, call.latitude, maximum_distance)
      [] SearchType \in {"irregular_2d_centroids", "irregular_2d_vertices"} ->
            _find_nearest_from_irregular_centroids(
                c[1], c[2], call.longitude, call.latitude, maximum_distance)

\* C7: find_nearest on rectilinear vertices, and on rectilinear bounds
\* turned into vertices, returns what the rectilinear-centroid search
\* returns on the centroids of the cells, for the same query point.
ClaimC7 ==
    (/\ call.op = "find_nearest"
     /\ SearchType \in {"rectilinear_2d_vertices", "rectilinear_2d_bounds"}) =>
        result = CentroidSearch(SearchedCentroids(grid, SearchType),
                                call.maximum_distance)

\* C8: for each of the six topologies, with a maximum distance that the
\* distance from the query point to the selected nearest point exceeds,
\* GeogridError is raised and no index is returned; otherwise the index of
\* the selected point is returned.
ClaimC8 ==
    (call.op = "find_nearest" /\ SearchType \in GridTypes) =>
        LET c == SearchedCentroids(grid, SearchType)
            selected == CentroidSearch(c, None).value
            distance ==
                IF Len(c[1].shape) = 2
                THEN PointDistance(c[1].data[selected[1] + 1][selected[2] + 1],
                                   c[2].data[selected[1] + 1][selected[2] + 1],
                                   call.longitude, call.latitude)
                ELSE IF SearchType = "list_of_2d_points"
                THEN PointDistance(c[1].data[selected[1] + 1],
                                   c[2].data[selected[1] + 1],
                                   call.longitude, call.latitude)
                ELSE PointDistance(c[1].data[selected[1] + 1],
                                   c[2].data[selected[2] + 1],
                                   call.longitude, call.latitude)
        IN IF call.maximum_distance # None
              /\ distance > Val(call.maximum_distance)
           THEN result = Raise("GeogridError")
           ELSE result = Return(selected)

(***************************************************************************)
(* Properties of the grid classifier.                                       *)
(***************************************************************************)
\* Every value of the axis is below (above) the values after it.
Increasing(a) ==
    \A i, j \in 1..a.shape[1] : i < j => a.data[i] < a.data[j]
Decreasing(a) ==
    \A i, j \in 1..a.shape[1] : i < j => a.data[i] > a.data[j]
BothStrictlyMonotonic ==
    /\ Increasing(grid.longitudes) \/ Decreasing(grid.longitudes)
    /\ Increasing(grid.latitudes) \/ Decreasing(grid.latitudes)

OneDimensional ==
    Len(grid.longitudes.shape) = 1 /\ Len(grid.latitudes.shape) = 1

SameSize == Size(grid.longitudes) = Size(grid.latitudes)

\* C9 as stated: with no dimension names, two one-dimensional arrays are
\* rectilinear_2d_centroids whenever the sizes differ or both arrays are
\* strictly monotonic, list_of_2d_points otherwise; nothing raises.
ClaimC9 ==
    (call.op = "detect_grid" /\ OneDimensional /\ call.lon_dimensions = None) =>
        IF ~SameSize \/ BothStrictlyMonotonic
        THEN result = Return(<<"rectilinear_2d_centroids">>)
        ELSE result = Return(<<"list_of_2d_points">>)

\* C9, amended: with no dimension names, two one-dimensional arrays are
\* rectilinear_2d_centroids when both are strictly monotonic, whatever the
\* sizes; list_of_2d_points when the sizes are equal and the arrays are not
\* both strictly monotonic; and GeogridError is raised when the sizes differ
\* and the arrays are not both strictly monotonic.
TheoremC9 ==
    (call.op = "detect_grid" /\ OneDimensional /\ call.lon_dimensions = None) =>
        IF BothStrictlyMonotonic
        THEN result = Return(<<"rectilinear_2d_centroids">>)
        ELSE IF SameSize
        THEN result = Return(<<"list_of_2d_points">>)
        ELSE result = Raise("GeogridError")

\* Arrays of different sizes, not both strictly monotonic: no grid.
WitnessC9 ==
    /\ call.op = "detect_grid" /\ OneDimensional
    /\ call.lon_dimensions = None /\ call.lat_dimensions = None
    /\ ~SameSize /\ ~BothStrictlyMonotonic
    /\ result = Raise("GeogridError")

\* C10: with dimension names, two one-dimensional arrays are
\* list_of_2d_points when the names are equal and the sizes are equal,
\* rectilinear_2d_centroids when the names are distinct and both arrays are
\* strictly monotonic, and in every other case GeogridError is raised.
TheoremC10 ==
    (call.op = "detect_grid" /\ OneDimensional /\ call.lon_dimensions # None) =>
        IF call.lon_dimensions = call.lat_dimensions /\ SameSize
        THEN result = Return(<<"list_of_2d_points">>)
        ELSE IF /\ call.lon_dimensions # call.lat_dimensions
                /\ BothStrictlyMonotonic
        THEN result = Return(<<"rectilinear_2d_centroids">>)
        ELSE result = Raise("GeogridError")

\* The same name on arrays of different sizes, both strictly monotonic: the
\* grid is neither a list of points nor rectilinear.
WitnessC10 ==
    /\ call.op = "detect_grid" /\ OneDimensional
    /\ call.lon_dimensions # None
    /\ call.lon_dimensions = call.lat_dimensions
    /\ ~SameSize /\ BothStrictlyMonotonic
    /\ Size(grid.longitudes) >= 2
    /\ result = Raise("GeogridError")

TwoDimensional ==
    Len(grid.longitudes.shape) = 2 /\ Len(grid.latitudes.shape) = 2

SameShape == grid.longitudes.shape = grid.latitudes.shape

BoundsNames ==
    /\ call.lon_dimensions = Some(<<"lon", "bnds">>)
    /\ call.lat_dimensions = Some(<<"lat", "bnds">>)

\* C11: two two-dimensional arrays of the same shape are
\* rectilinear_2d_bounds when the dimension names are exactly ('lon', 'bnds')
\* and ('lat', 'bnds'), irregular_2d_centroids for every other combination
\* of names, none included; detect_grid never raises for them.
TheoremC11 ==
    (call.op = "detect_grid" /\ TwoDimensional /\ SameShape) =>
        IF BoundsNames
        THEN result = Return(<<"rectilinear_2d_bounds">>)
        ELSE result = Return(<<"irregular_2d_centroids">>)

\* The longitudes named as bounds, the latitudes as a curvilinear grid: the
\* grid is classified as irregular.
WitnessC11 ==
    /\ call.op = "detect_grid" /\ TwoDimensional /\ SameShape
    /\ call.lon_dimensions = Some(<<"lon", "bnds">>)
    /\ call.lat_dimensions = Some(<<"yc", "xc">>)
    /\ result = Return(<<"irregular_2d_centroids">>)

(***************************************************************************)
(* geogrid.rectilinear_centroids_to_vertices.  The centroids of the model   *)
(* are whole degrees, so that the halves of the vertices are whole tenths.  *)
(***************************************************************************)
\* ExtendedAxis padding each side with the edge value itself.
ExtendedAxisRepeatingEdges(x) ==
    LET n == x.shape[1]
    IN Array1([k \in 1..(n + 2) |->
                  IF k = 1 THEN x.data[1]
                  ELSE IF k = n + 2 THEN x.data[n] ELSE x.data[k - 1]])

\* extended_x: zeros of length N+2, x in the middle, then the first and the
\* last element extrapolated, in that order, from their two neighbours.
ExtendedAxis(x) ==
    LET n == x.shape[1]
        zeros == [k \in 1..(n + 2) |-> 0]
        filled == [k \in 1..(n + 2) |->
                      IF k \in 2..(n + 1) THEN x.data[k - 1] ELSE zeros[k]]
        first == [filled EXCEPT ![1] = 2 * filled[2] - filled[3]]
        last == [first EXCEPT ![n + 2] = 2 * first[n + 1] - first[n]]
    IN Array1(last)

\* ExtendedCentroids keeping the left value of each pair.
ExtendedCentroidsLeft(extended) ==
    Array1([i \in 1..(extended.shape[1] - 1) |-> extended.data[i]])

\* x[i] = (extended_x[i] + extended_x[i+1])/2.0
ExtendedCentroids(extended) ==
    Array1([i \in 1..(extended.shape[1] - 1) |->
               (extended.data[i] + extended.data[i + 1]) \div 2])

\* ForcedAxis taking every axis for an ascending one.
ForcedAxisAscending(x, lower_bound, upper_bound) ==
    Array1([x.data EXCEPT ![1] = lower_bound, ![x.shape[1]] = upper_bound])

\* forced_bounds on one axis: the position of the minimum tells the
\* orientation, the two assignments are made in the order of the code.
ForcedAxis(x, lower_bound, upper_bound) ==
    LET indices == FirstIndex1(x, ArrayMin(x))
        n == x.shape[1]
    IN IF indices = 0
       THEN Array1([[x.data EXCEPT ![1] = lower_bound] EXCEPT ![n] = upper_bound])
       ELSE Array1([[x.data EXCEPT ![1] = upper_bound] EXCEPT ![n] = lower_bound])

\* LimitedAxis taking every axis for an ascending one.
LimitedAxisAscending(x, lower_bound, upper_bound) ==
    LET n == x.shape[1]
        low == IF x.data[1] < lower_bound
               THEN [x.data EXCEPT ![1] = lower_bound] ELSE x.data
        high == IF low[n] > upper_bound
                THEN [low EXCEPT ![n] = upper_bound] ELSE low
    IN Array1(high)

\* limit_bounds on one axis.
LimitedAxis(x, lower_bound, upper_bound) ==
    LET indices == FirstIndex1(x, ArrayMin(x))
        n == x.shape[1]
    IN IF indices = 0
       THEN LET low == IF x.data[1] < lower_bound
                       THEN [x.data EXCEPT ![1] = lower_bound] ELSE x.data
                high == IF low[n] > upper_bound
                        THEN [low EXCEPT ![n] = upper_bound] ELSE low
            IN Array1(high)
       ELSE LET low == IF x.data[n] < lower_bound
                       THEN [x.data EXCEPT ![n] = lower_bound] ELSE x.data
                high == IF low[1] > upper_bound
                        THEN [low EXCEPT ![1] = upper_bound] ELSE low
            IN Array1(high)

rectilinear_centroids_to_vertices(x, y, forced_bounds, limit_bounds, lower_bound_x, upper_bound_x, lower_bound_y, upper_bound_y) ==
    LET extended_x == ExtendedAxis(x)
        extended_y == ExtendedAxis(y)
        xv == ExtendedCentroids(extended_x)
        yv == ExtendedCentroids(extended_y)
    IN IF forced_bounds
       THEN <<ForcedAxis(xv, Val(lower_bound_x), Val(upper_bound_x)),
              ForcedAxis(yv, Val(lower_bound_y), Val(upper_bound_y))>>
       ELSE IF limit_bounds
       THEN <<LimitedAxis(xv, Val(lower_bound_x), Val(upper_bound_x)),
              LimitedAxis(yv, Val(lower_bound_y), Val(upper_bound_y))>>
       ELSE <<xv, yv>>

(***************************************************************************)
(* rectilinear_centroids_to_vertices as a state machine: one call on two    *)
(* axes of centroids, then rectilinear_vertices_to_centroids on the         *)
(* vertices it returned.                                                    *)
(***************************************************************************)
MaxCentroids == 3

CentroidLattice == {0, Deg(2), Deg(6)}

\* The axes of tests/test_geogrid.py, one way and the other.
TestCentroids ==
    {[longitudes |-> Array1(<<Deg(1), Deg(2), Deg(3), Deg(4)>>),
      latitudes |-> Array1(<<Deg(2), Deg(7), Deg(8)>>)],
     [longitudes |-> Array1(<<Deg(4), Deg(3), Deg(2), Deg(1)>>),
      latitudes |-> Array1(<<Deg(8), Deg(7), Deg(2)>>)]}

CentroidGrids ==
    {[longitudes |-> Array1(x), latitudes |-> Array1(y)] :
        x \in NonEmptySeqsUpTo(CentroidLattice, MaxCentroids),
        y \in NonEmptySeqsUpTo(CentroidLattice, MaxCentroids)}
    \cup TestCentroids

\* (lower bound, upper bound) of the tests: -7 and 12, 0.1 and 4.2 on x,
\* -3 and 10, 0 and 9 on y.
BoundsX == {<<Deg(0 - 7), Deg(12)>>, <<1, 42>>}
BoundsY == {<<Deg(0 - 3), Deg(10)>>, <<0, Deg(9)>>}

InitVertices ==
    /\ nc_files = <<>>
    /\ grid \in CentroidGrids
    /\ calendar = NoCalendar
    /\ call = NoCall
    /\ result = NoResult

\* No bounds option: the four bounds keep their default, None.
CallCentroidsToVertices ==
    /\ call = NoCall
    /\ call' = [op |-> "rectilinear_centroids_to_vertices",
                forced_bounds |-> FALSE, limit_bounds |-> FALSE,
                lower_bound_x |-> None, upper_bound_x |-> None,
                lower_bound_y |-> None, upper_bound_y |-> None]
    /\ result' = Return(rectilinear_centroids_to_vertices(
                            grid.longitudes, grid.latitudes, FALSE, FALSE,
                            None, None, None, None))
    /\ UNCHANGED <<nc_files, grid, calendar>>

\* forced_bounds or limit_bounds or both, with the four bounds set.
CallCentroidsToVerticesWithBounds ==
    \E forced_bounds \in BOOLEAN, limit_bounds \in BOOLEAN,
       bx \in BoundsX, by \in BoundsY :
        /\ call = NoCall
        /\ forced_bounds \/ limit_bounds
        /\ call' = [op |-> "rectilinear_centroids_to_vertices",
                    forced_bounds |-> forced_bounds,
                    limit_bounds |-> limit_bounds,
                    lower_bound_x |-> Some(bx[1]), upper_bound_x |-> Some(bx[2]),
                    lower_bound_y |-> Some(by[1]), upper_bound_y |-> Some(by[2])]
        /\ result' = Return(rectilinear_centroids_to_vertices(
                                grid.longitudes, grid.latitudes,
                                forced_bounds, limit_bounds,
                                Some(bx[1]), Some(bx[2]),
                                Some(by[1]), Some(by[2])))
        /\ UNCHANGED <<nc_files, grid, calendar>>

\* The vertices whose centroids are whole tenths of a degree.
HalvesExact(v) ==
    \A k \in 1..(v.shape[1] - 1) : (v.data[k] + v.data[k + 1]) % 2 = 0

\* rectilinear_vertices_to_centroids on the vertices just returned, where the
\* model computes it exactly.
CallVerticesToCentroids ==
    /\ call.op = "rectilinear_centroids_to_vertices"
    /\ HalvesExact(result.value[1]) /\ HalvesExact(result.value[2])
    /\ call' = [call EXCEPT !.op = "rectilinear_vertices_to_centroids"]
    /\ result' = Return(rectilinear_vertices_to_centroids(
                            result.value[1], result.value[2]))
    /\ UNCHANGED <<nc_files, grid, calendar>>

NextVertices ==
    \/ CallCentroidsToVertices
    \/ CallCentroidsToVerticesWithBounds
    \/ CallVerticesToCentroids

SpecVertices == InitVertices /\ [][NextVertices]_vars

(***************************************************************************)
(* Properties of rectilinear_centroids_to_vertices.                         *)
(***************************************************************************)
Axes == {"longitudes", "latitudes"}

\* The centroids given on an axis, and what the last call returned for it.
Given(axis) == grid[axis]
Returned(axis) ==
    IF axis = "longitudes" THEN result.value[1] ELSE result.value[2]

NoBoundsOption == ~call.forced_bounds /\ ~call.limit_bounds

Ascending(c) == \A k \in 1..(c.shape[1] - 1) : c.data[k] < c.data[k + 1]
Descending(c) == \A k \in 1..(c.shape[1] - 1) : c.data[k] > c.data[k + 1]

\* Vertex k of v (counted from 0) is the midpoint of centroids k-1 and k.
IsMidpoint(v, c, k) == 2 * v.data[k + 1] = c.data[k] + c.data[k + 1]

InteriorMidpoints(v, c) ==
    \A k \in 1..(c.shape[1] - 1) : IsMidpoint(v, c, k)

\* C13: with no bounds option an axis of N >= 2 centroids gives N+1
\* vertices: vertex k, 1 <= k <= N-1, is the midpoint of centroids k-1 and
\* k, vertex 0 is c_0 - (c_1 - c_0)/2 and vertex N is
\* c_{N-1} + (c_{N-1} - c_{N-2})/2, on each axis whatever the other axis is.
TheoremC13 ==
    (call.op = "rectilinear_centroids_to_vertices" /\ NoBoundsOption) =>
        \A axis \in Axes :
            LET c == Given(axis)
                v == Returned(axis)
                n == c.shape[1]
            IN n >= 2 =>
                /\ v.shape = <<n + 1>>
                /\ InteriorMidpoints(v, c)
                /\ 2 * v.data[1] = 2 * c.data[1] - (c.data[2] - c.data[1])
                /\ 2 * v.data[n + 1] =
                        2 * c.data[n] + (c.data[n] - c.data[n - 1])

\* The axes 1, 2, 3, 4 and 2, 7, 8 give the vertices 0.5, ..., 4.5 and
\* -0.5, 4.5, 7.5, 8.5.
WitnessC13 ==
    /\ call.op = "rectilinear_centroids_to_vertices" /\ NoBoundsOption
    /\ grid.latitudes = Array1(<<Deg(2), Deg(7), Deg(8)>>)
    /\ result = Return(<<Array1(<<5, 15, 25, 35, 45>>),
                         Array1(<<0 - 5, 45, 75, 85>>)>>)

\* The bounds given for an axis.
LowerBound(axis) ==
    IF axis = "longitudes" THEN Val(call.lower_bound_x)
    ELSE Val(call.lower_bound_y)
UpperBound(axis) ==
    IF axis = "longitudes" THEN Val(call.upper_bound_x)
    ELSE Val(call.upper_bound_y)

\* C14: with forced_bounds, on a strictly monotonic axis, the first vertex
\* is the lower bound and the last the upper bound when the axis ascends,
\* the first the upper bound and the last the lower bound when it descends;
\* every interior vertex is the midpoint it was.
TheoremC14 ==
    (call.op = "rectilinear_centroids_to_vertices" /\ call.forced_bounds) =>
        \A axis \in Axes :
            LET c == Given(axis)
                v == Returned(axis)
                n == c.shape[1]
            IN (n >= 2 /\ (Ascending(c) \/ Descending(c))) =>
                /\ InteriorMidpoints(v, c)
                /\ Ascending(c) =>
                        /\ v.data[1] = LowerBound(axis)
                        /\ v.data[n + 1] = UpperBound(axis)
                /\ Descending(c) =>
                        /\ v.data[1] = UpperBound(axis)
                        /\ v.data[n + 1] = LowerBound(axis)

\* The descending axes 4, 3, 2, 1 and 8, 7, 2 forced to -7..12 and -3..10.
WitnessC14 ==
    /\ call.op = "rectilinear_centroids_to_vertices" /\ call.forced_bounds
    /\ result = Return(<<Array1(<<Deg(12), 35, 25, 15, Deg(0 - 7)>>),
                         Array1(<<Deg(10), 75, 45, Deg(0 - 3)>>)>>)

\* The round trip: vertices from the centroids with no bounds option, then
\* centroids from those vertices.
RoundTrip == call.op = "rectilinear_vertices_to_centroids" /\ NoBoundsOption

StrictAxisOfThree(c) == c.shape[1] >= 3 /\ (Ascending(c) \/ Descending(c))

\* C12 as stated: the round trip reproduces every interior centroid of a
\* strictly monotonic axis of at least three centroids.
ClaimC12 ==
    RoundTrip =>
        \A axis \in Axes :
            LET c == Given(axis)
                r == Returned(axis)
            IN StrictAxisOfThree(c) =>
                \A k \in 2..(c.shape[1] - 1) : r.data[k] = c.data[k]

\* C12: on a strictly monotonic axis of at least three centroids the round
\* trip gives as many centroids as it was given, reproduces the two border
\* centroids, and turns every interior centroid c_k into
\* (c_{k-1} + 2 c_k + c_{k+1})/4, which is c_k only where c_k is the middle
\* of its two neighbours.
TheoremC12 ==
    RoundTrip =>
        \A axis \in Axes :
            LET c == Given(axis)
                r == Returned(axis)
                n == c.shape[1]
            IN StrictAxisOfThree(c) =>
                /\ r.shape = c.shape
                /\ r.data[1] = c.data[1]
                /\ r.data[n] = c.data[n]
                /\ \A k \in 2..(n - 1) :
                    /\ 4 * r.data[k] = c.data[k - 1] + 2 * c.data[k] + c.data[k + 1]
                    /\ r.data[k] = c.data[k] <=>
                            2 * c.data[k] = c.data[k - 1] + c.data[k + 1]

\* The latitudes 2, 7, 8 come back as 2, 6, 8.
WitnessC12 ==
    /\ RoundTrip
    /\ grid.latitudes = Array1(<<Deg(2), Deg(7), Deg(8)>>)
    /\ result.value[2] = Array1(<<Deg(2), Deg(6), Deg(8)>>)

\* The vertices of an axis with no bounds option.
Unbounded(axis) ==
    LET v == rectilinear_centroids_to_vertices(grid.longitudes, grid.latitudes,
                                               FALSE, FALSE, None, None, None, None)
    IN IF axis = "longitudes" THEN v[1] ELSE v[2]

Raised(value, lower_bound) == IF value < lower_bound THEN lower_bound ELSE value
Lowered(value, upper_bound) == IF value > upper_bound THEN upper_bound ELSE value

\* C15: with limit_bounds (and not forced_bounds), on a strictly monotonic
\* axis, the boundary vertex of the low side is raised to the lower bound
\* when below it and the one of the high side lowered to the upper bound when
\* above it, the low side being the first vertex of an ascending axis and the
\* last of a descending one; a boundary vertex within the range and every
\* interior vertex are what they are with no bounds option.
TheoremC15 ==
    (/\ call.op = "rectilinear_centroids_to_vertices"
     /\ call.limit_bounds /\ ~call.forced_bounds) =>
        \A axis \in Axes :
            LET c == Given(axis)
                v == Returned(axis)
                u == Unbounded(axis)
                n == c.shape[1]
            IN (n >= 2 /\ (Ascending(c) \/ Descending(c))) =>
                /\ v.shape = u.shape
                /\ \A k \in 2..n : v.data[k] = u.data[k]
                /\ Ascending(c) =>
                        /\ v.data[1] = Raised(u.data[1], LowerBound(axis))
                        /\ v.data[n + 1] = Lowered(u.data[n + 1], UpperBound(axis))
                /\ Descending(c) =>
                        /\ v.data[n + 1] = Raised(u.data[n + 1], LowerBound(axis))
                        /\ v.data[1] = Lowered(u.data[1], UpperBound(axis))

\* The descending axes 4, 3, 2, 1 and 8, 7, 2 limited to 0.1..4.2 and 0..9:
\* the first longitude vertex is lowered, the last latitude vertex raised.
WitnessC15 ==
    /\ call.op = "rectilinear_centroids_to_vertices"
    /\ call.limit_bounds /\ ~call.forced_bounds
    /\ result = Return(<<Array1(<<42, 35, 25, 15, 5>>),
                         Array1(<<85, 75, 45, 0>>)>>)

(***************************************************************************)
(* The subset of a rectilinear grid that covers a geometry (geogrid.py).    *)
(* A geometry is its bounds (minx, miny, maxx, maxy), the only part of it   *)
(* the rectilinear subsetter reads; a slice is the pair (start, stop).      *)
(***************************************************************************)
ArrayMax(a) == CHOOSE x \in Elements(a) : \A y \in Elements(a) : x >= y

\* OutsideGrid looking at the longitudes only.
OutsideGridLongitudeOnly(lon_vertices, lat_vertices, geometry) ==
    \/ geometry.bounds[3] < ArrayMin(lon_vertices)
    \/ geometry.bounds[1] > ArrayMax(lon_vertices)

\* The four tests that raise "Geometry falls outside the grid.":
\* geometry.bounds[2], [0], [1], [3] of the code are bounds[3], [1], [2], [4].
OutsideGrid(lon_vertices, lat_vertices, geometry) ==
    \/ geometry.bounds[3] < ArrayMin(lon_vertices)
    \/ geometry.bounds[1] > ArrayMax(lon_vertices)
    \/ geometry.bounds[2] < ArrayMin(lat_vertices)
    \/ geometry.bounds[4] > ArrayMax(lat_vertices)

\* np.where((vertices >= lower) & (vertices <= upper))[0], in increasing order.
IndicesWithin(vertices, lower, upper) ==
    {k \in 0..(vertices.shape[1] - 1) :
        vertices.data[k + 1] >= lower /\ vertices.data[k + 1] <= upper}

SetMin(S) == CHOOSE x \in S : \A y \in S : x <= y
SetMax(S) == CHOOSE x \in S : \A y \in S : x >= y

\* The slice of one axis: around the vertices within the bounds or, when
\* there is none, from the lower of the two vertices nearest to the lower
\* bound.
AxisSlice(vertices, lower, upper) ==
    LET indices == IndicesWithin(vertices, lower, upper)
    IN IF indices = {}
       THEN LET distances ==
                    Array1([k \in 1..vertices.shape[1] |->
                               Abs(vertices.data[k] - lower)])
                i1 == FirstIndex1(distances, ArrayMin(distances))
                masked == Array1([distances.data EXCEPT
                                     ![i1 + 1] = ArrayMax(distances) + 1])
                i2 == FirstIndex1(masked, ArrayMin(masked))
                first == IF i2 < i1 THEN i2 ELSE i1
            IN <<first, first + 1>>
       ELSE <<SetMin(indices) - 1, SetMax(indices) + 1>>

_polygon_grid_subset_from_rectilinear_vertices(lon_vertices, lat_vertices, geometry) ==
    IF OutsideGrid(lon_vertices, lat_vertices, geometry)
    THEN Raise("GeogridError")
    ELSE LET slice_lon == AxisSlice(lon_vertices, geometry.bounds[1],
                                    geometry.bounds[3])
             slice_lat == AxisSlice(lat_vertices, geometry.bounds[2],
                                    geometry.bounds[4])
         IN Return(<<slice_lon, slice_lat>>)

\* lon_vertices and lat_vertices keep their default, None.
_polygon_grid_subset_from_rectilinear_centroids(lon_centroids, lat_centroids, geometry) ==
    LET vertices == rectilinear_centroids_to_vertices(
                        lon_centroids, lat_centroids, FALSE, FALSE,
                        None, None, None, None)
    IN _polygon_grid_subset_from_rectilinear_vertices(
           vertices[1], vertices[2], geometry)

\* The rectilinear branches of subdomain_grid_slices_or_points_indices.
SubdomainOfType(lon, lat, geometry, grid_type) ==
    CASE grid_type = "rectilinear_2d_centroids" ->
            _polygon_grid_subset_from_rectilinear_centroids(lon, lat, geometry)
      [] grid_type = "rectilinear_2d_bounds" ->
            LET vertices == rectilinear_2d_bounds_to_vertices(lon, lat)
            IN _polygon_grid_subset_from_rectilinear_vertices(
                   vertices[1], vertices[2], geometry)
      [] grid_type = "rectilinear_2d_vertices" ->
            _polygon_grid_subset_from_rectilinear_vertices(lon, lat, geometry)

subdomain_grid_slices_or_points_indices(lon, lat, geometry, grid_type, lon_dimensions, lat_dimensions) ==
    IF grid_type = None
    THEN LET detected == detect_grid(lon, lat, lon_dimensions, lat_dimensions)
         IN IF detected.kind = "raise" THEN detected
            ELSE SubdomainOfType(lon, lat, geometry, Val(detected.value))
    ELSE SubdomainOfType(lon, lat, geometry, Val(grid_type))

(***************************************************************************)
(* The rectilinear subsetter as a state machine: one call of                *)
(* subdomain_grid_slices_or_points_indices on the given arrays.             *)
(***************************************************************************)
MaxVertices == 3

\* 0, 1, 3, 6, ... degrees: unevenly spaced.
VertexLattice == {Deg((k * (k - 1)) \div 2) : k \in 1..MaxVertices}

\* The strictly monotonic axes of two vertices or more, ascending and
\* descending.
VertexAxes ==
    {v \in NonEmptySeqsUpTo(VertexLattice, MaxVertices) :
        Len(v) >= 2 /\ StrictlyMonotonic(Array1(v))}

\* The same two axes as arrays of one dimension (vertices, or centroids) and
\* as CF bounds.
SubsetGrids ==
    {[longitudes |-> Array1(x), latitudes |-> Array1(y)] :
        x \in VertexAxes, y \in VertexAxes}
    \cup {[longitudes |-> BoundsOf(x), latitudes |-> BoundsOf(y)] :
            x \in VertexAxes, y \in VertexAxes}

\* (lower, upper) of the bounds of a polygon on one axis, in tenths of a
\* degree: below every axis, across the lowest vertex, within the first
\* cell, around the vertex at 1 degree, within the second cell, from the
\* second cell to beyond every axis, around every axis, above every axis.
Intervals ==
    {<<Deg(0 - 2), Deg(0 - 1)>>, <<Deg(0 - 1), 5>>, <<3, 6>>, <<5, 15>>,
     <<15, 20>>, <<20, Deg(100)>>, <<Deg(0 - 1), Deg(100)>>,
     <<Deg(100), Deg(101)>>}

Geometries ==
    {[bounds |-> <<x[1], y[1], x[2], y[2]>>] : x \in Intervals, y \in Intervals}

InitSubset ==
    /\ nc_files = <<>>
    /\ grid \in SubsetGrids
    /\ calendar = NoCalendar
    /\ call = NoCall
    /\ result = NoResult

\* The rectilinear grid types the arrays can be given as.
SubsetTypes(g) ==
    IF Len(g.longitudes.shape) = 1
    THEN {"rectilinear_2d_vertices", "rectilinear_2d_centroids"}
    ELSE {"rectilinear_2d_bounds"}

\* The grid type given.
CallSubdomain ==
    \E geometry \in Geometries, grid_type \in SubsetTypes(grid) :
        /\ call = NoCall
        /\ call' = [op |-> "subdomain_grid_slices_or_points_indices",
                    geometry |-> geometry, grid_type |-> Some(grid_type),
                    lon_dimensions |-> None, lat_dimensions |-> None]
        /\ result' = subdomain_grid_slices_or_points_indices(
                        grid.longitudes, grid.latitudes, geometry,
                        Some(grid_type), None, None)
        /\ UNCHANGED <<nc_files, grid, calendar>>

\* The grid type detected: centroids for two axes without names, bounds for
\* two arrays named as CF bounds.
CallSubdomainDetecting ==
    \E geometry \in Geometries :
        LET lon_dimensions ==
                IF Len(grid.longitudes.shape) = 1 THEN None
                ELSE Some(<<"lon", "bnds">>)
            lat_dimensions ==
                IF Len(grid.latitudes.shape) = 1 THEN None
                ELSE Some(<<"lat", "bnds">>)
        IN /\ call = NoCall
           /\ call' = [op |-> "subdomain_grid_slices_or_points_indices",
                       geometry |-> geometry, grid_type |-> None,
                       lon_dimensions |-> lon_dimensions,
                       lat_dimensions |-> lat_dimensions]
           /\ result' = subdomain_grid_slices_or_points_indices(
                           grid.longitudes, grid.latitudes, geometry,
                           None, lon_dimensions, lat_dimensions)
           /\ UNCHANGED <<nc_files, grid, calendar>>

NextSubset == CallSubdomain \/ CallSubdomainDetecting

SpecSubset == InitSubset /\ [][NextSubset]_vars

(***************************************************************************)
(* Properties of the rectilinear subsetter.                                 *)
(***************************************************************************)
\* The grid type of the last call, given or detected.
SubsetType ==
    IF call.grid_type # None THEN Val(call.grid_type)
    ELSE Val(detect_grid(grid.longitudes, grid.latitudes,
                         call.lon_dimensions, call.lat_dimensions).value)

\* The vertices of the grid of the last call, on both axes.
GridVertices ==
    CASE SubsetType = "rectilinear_2d_vertices" ->
            <<grid.longitudes, grid.latitudes>>
      [] SubsetType = "rectilinear_2d_bounds" ->
            <<Array1([k \in 1..(grid.longitudes.shape[1] + 1) |->
                        IF k = 1 THEN grid.longitudes.data[1][1]
                        ELSE grid.longitudes.data[k - 1][2]]),
              Array1([k \in 1..(grid.latitudes.shape[1] + 1) |->
                        IF k = 1 THEN grid.latitudes.data[1][1]
                        ELSE grid.latitudes.data[k - 1][2]])>>
      [] SubsetType = "rectilinear_2d_centroids" ->
            rectilinear_centroids_to_vertices(grid.longitudes, grid.latitudes,
                                              FALSE, FALSE, None, None, None, None)

\* Every vertex of v is above upper, or every vertex is below lower.
EntirelyOutside(v, lower, upper) ==
    \/ \A x \in Elements(v) : upper < x
    \/ \A x \in Elements(v) : lower > x

PyRange(a, b) == [k \in 1..(b - a) |-> a + k - 1]

months_of_gregorian_calendar(year) == PyRange(1, 13)
temperate_seasons(year) == PyRange(1, 5)
year_cycle(year) == <<0>>

days_in_month_360(month, year) == PyRange(1, 31)

days_in_month_365(month, year) ==
    LET days_in_months == <<31, 28, 31, 30, 31, 30, 31, 31, 30, 31, 30, 31>>
    IN PyRange(1, days_in_months[month] + 1)

days_in_month_366(month, year) ==
    LET days_in_months == <<31, 29, 31, 30, 31, 30, 31, 31, 30, 31, 30, 31>>
    IN PyRange(1, days_in_months[month] + 1)

days_in_month_julian(month, year) ==
    IF year % 4 = 0 THEN days_in_month_366(month, year)
    ELSE days_in_month_365(month, year)

\* days_in_month_proleptic_gregorian with no leap century at all.
days_in_month_proleptic_gregorian_without_400(month, year) ==
    IF year % 100 = 0 THEN days_in_month_365(month, year)
    ELSE days_in_month_julian(month, year)

days_in_month_proleptic_gregorian(month, year) ==
    IF year % 100 = 0 /\ year % 400 # 0 THEN days_in_month_365(month, year)
    ELSE days_in_month_julian(month, year)

\* days_in_month_gregorian with a whole month of October 1582.
days_in_month_gregorian_without_gap(month, year) ==
    IF year > 1582 \/ (year = 1582 /\ month >= 10)
    THEN days_in_month_proleptic_gregorian(month, year)
    ELSE days_in_month_julian(month, year)

\* days_in_month_gregorian with the Gregorian rule before 1582 as well.
days_in_month_gregorian_always_proleptic(month, year) ==
    IF year = 1582 /\ month = 10
    THEN <<1, 2, 3, 4>> \o PyRange(15, 32)
    ELSE days_in_month_proleptic_gregorian(month, year)

days_in_month_gregorian(month, year) ==
    IF year > 1582 \/ (year = 1582 /\ month > 10)
    THEN days_in_month_proleptic_gregorian(month, year)
    ELSE IF year = 1582 /\ month = 10
    THEN <<1, 2, 3, 4, 15, 16, 17, 18, 19, 20, 21, 22, 23, 24, 25, 26, 27, 28, 29, 30, 31>>
    ELSE days_in_month_julian(month, year)

days_in_year_365(cycle, year) == PyRange(1, 366)
day_in_year(cycle, year) == <<1>>

\* class Calendar: what __init__ stores.
Calendar(alias, cycles_in_year, days_in_cycle, fn_is_leap) ==
    [alias |-> alias, cycles_in_year |-> cycles_in_year,
     days_in_cycle |-> days_in_cycle, fn_is_leap |-> fn_is_leap]

\* self.cycles_in_year(year)
cycles_in_year(self, year) ==
    CASE self.cycles_in_year = "months_of_gregorian_calendar" ->
            months_of_gregorian_calendar(year)
      [] self.cycles_in_year = "temperate_seasons" -> temperate_seasons(year)
      [] self.cycles_in_year = "year_cycle" -> year_cycle(year)

\* self.days_in_cycle(cycle, year)
days_in_cycle(self, cycle, year) ==
    CASE self.days_in_cycle = "days_in_month_360" -> days_in_month_360(cycle, year)
      [] self.days_in_cycle = "days_in_month_365" -> days_in_month_365(cycle, year)
      [] self.days_in_cycle = "days_in_month_366" -> days_in_month_366(cycle, year)
      [] self.days_in_cycle = "days_in_month_julian" ->
            days_in_month_julian(cycle, year)
      [] self.days_in_cycle = "days_in_month_proleptic_gregorian" ->
            days_in_month_proleptic_gregorian(cycle, year)
      [] self.days_in_cycle = "days_in_month_gregorian" ->
            days_in_month_gregorian(cycle, year)
      [] self.days_in_cycle = "days_in_year_365" -> days_in_year_365(cycle, year)
      [] self.days_in_cycle = "day_in_year" -> day_in_year(cycle, year)

\* days_in_cycle[-1] == 29, for the second cycle of the year.
is_leap_feb29(year, self) ==
    LET days == days_in_cycle(self, 2, year)
    IN days[Len(days)] = 29

\* Calendar.is_leap answering False where no leap function is set.
is_leap_without_error(self, year) ==
    IF self.fn_is_leap = None THEN Return(<<FALSE>>)
    ELSE Return(<<is_leap_feb29(year, self)>>)

\* Calendar.is_leap; is_leap_feb29 is the one leap function of the module.
is_leap(self, year) ==
    IF self.fn_is_leap = None THEN Raise("CalendarError")
    ELSE IF is_leap_feb29(year, self) THEN Return(<<TRUE>>)
    ELSE Return(<<FALSE>>)

RECURSIVE SumOfLengths(_, _, _, _)
\* days_in_year after the cycles k, k+1, ... of year_cycles are added.
SumOfLengths(self, year_cycles, k, year) ==
    IF k > Len(year_cycles) THEN 0
    ELSE Len(days_in_cycle(self, year_cycles[k], year))
            + SumOfLengths(self, year_cycles, k + 1, year)

\* Calendar.count_days_in_year
count_days_in_year(self, year) ==
    LET year_cycles == cycles_in_year(self, year)
    IN Return(<<SumOfLengths(self, year_cycles, 1, year)>>)

\* The built-in calendars.
Cal360 == Calendar("360_day", "months_of_gregorian_calendar", "days_in_month_360", Some("is_leap_feb29"))
Cal365 == Calendar("noleap", "months_of_gregorian_calendar", "days_in_month_365", Some("is_leap_feb29"))
Cal366 == Calendar("all_leap", "months_of_gregorian_calendar", "days_in_month_366", Some("is_leap_feb29"))
CalJulian == Calendar("julian", "months_of_gregorian_calendar", "days_in_month_julian", Some("is_leap_feb29"))
CalProleptic == Calendar("proleptic_gregorian", "months_of_gregorian_calendar", "days_in_month_proleptic_gregorian", Some("is_leap_feb29"))
CalGregorian == Calendar("gregorian", "months_of_gregorian_calendar", "days_in_month_gregorian", Some("is_leap_feb29"))
CalYearsOnly == Calendar("years_only", "year_cycle", "day_in_year", Some("is_leap_feb29"))
CalMonthsOnly == Calendar("months_only", "months_of_gregorian_calendar", "day_in_year", None)
CalSeasons == Calendar("seasons", "temperate_seasons", "day_in_year", None)
Cal365NoMonths == Calendar("365_days_no_months", "year_cycle", "days_in_year_365", None)

BuiltInCalendars ==
    {Cal360, Cal365, Cal366, CalJulian, CalProleptic, CalGregorian,
     CalYearsOnly, CalMonthsOnly, CalSeasons, Cal365NoMonths}

\* Calendar.__eq__
__eq__(self, other) == IF self.alias = other.alias THEN TRUE ELSE FALSE

\* Calendar.__ne__ comparing the objects whole.
__ne__by_identity(self, other) == IF self # other THEN TRUE ELSE FALSE

__ne__(self, other) == IF self.alias # other.alias THEN TRUE ELSE FALSE

\* calendar_from_alias knowing one alias for each calendar.
calendar_from_alias_without_synonyms(calendar_alias) ==
    IF \E c \in BuiltInCalendars : c.alias = calendar_alias
    THEN Return(<<CHOOSE c \in BuiltInCalendars : c.alias = calendar_alias>>)
    ELSE Raise("CalendarError")

calendar_from_alias(calendar_alias) ==
    IF calendar_alias = "360_day" THEN Return(<<Cal360>>)
    ELSE IF calendar_alias \in {"noleap", "365_day"} THEN Return(<<Cal365>>)
    ELSE IF calendar_alias \in {"all_leap", "366_day"} THEN Return(<<Cal366>>)
    ELSE IF calendar_alias = "julian" THEN Return(<<CalJulian>>)
    ELSE IF calendar_alias = "proleptic_gregorian" THEN Return(<<CalProleptic>>)
    ELSE IF calendar_alias \in {"gregorian", "standard"} THEN Return(<<CalGregorian>>)
    ELSE IF calendar_alias = "years_only" THEN Return(<<CalYearsOnly>>)
    ELSE IF calendar_alias = "months_only" THEN Return(<<CalMonthsOnly>>)
    ELSE IF calendar_alias = "seasons" THEN Return(<<CalSeasons>>)
    ELSE IF calendar_alias = "365_days_no_months" THEN Return(<<Cal365NoMonths>>)
    ELSE Raise("CalendarError")

(***************************************************************************)
(* The calendars as a state machine: one call of a method of a built-in     *)
(* calendar.                                                                *)
(***************************************************************************)
YearSpan == 1

\* The years of tests/test_calendars.py, the year of the Gregorian reform
\* and the centuries around it.
TestYears ==
    {0 - 10000, 0 - 4966, 0 - 1774, 0 - 1, 0, 1, 400, 890, 1000, 1100, 1500,
     1582, 1600, 1700, 1878, 1900, 1962, 1964, 2000, 2660, 2711, 9999}

Years == UNION {(y - YearSpan)..(y + YearSpan) : y \in TestYears}

InitCalendar ==
    /\ nc_files = <<>>
    /\ grid = NoGrid
    /\ calendar \in BuiltInCalendars
    /\ call = NoCall
    /\ result = NoResult

CallIsLeap ==
    \E year \in Years :
        /\ call = NoCall
        /\ call' = [op |-> "is_leap", year |-> year]
        /\ result' = is_leap(calendar, year)
        /\ UNCHANGED <<nc_files, grid, calendar>>

CallCountDaysInYear ==
    \E year \in Years :
        /\ call = NoCall
        /\ call' = [op |-> "count_days_in_year", year |-> year]
        /\ result' = count_days_in_year(calendar, year)
        /\ UNCHANGED <<nc_files, grid, calendar>>

\* calendar.days_in_cycle(cycle, year) for a cycle of that year.
CallDaysInCycle ==
    \E year \in Years :
        \E k \in 1..Len(cycles_in_year(calendar, year)) :
            LET cycle == cycles_in_year(calendar, year)[k]
            IN /\ call = NoCall
               /\ call' = [op |-> "days_in_cycle", cycle |-> cycle, year |-> year]
               /\ result' = Return(<<days_in_cycle(calendar, cycle, year)>>)
               /\ UNCHANGED <<nc_files, grid, calendar>>

\* The aliases of the built-in table and strings that are none of them.
Aliases ==
    {"360_day", "noleap", "365_day", "all_leap", "366_day", "julian",
     "proleptic_gregorian", "gregorian", "standard", "years_only",
     "months_only", "seasons", "365_days_no_months",
     "", "none", "Gregorian", "360_days", "365_days", "no_leap"}

\* calendar_from_alias is a function of the module: the calendar of the
\* state has no part in it.
CallCalendarFromAlias ==
    \E calendar_alias \in Aliases :
        /\ call = NoCall
        /\ call' = [op |-> "calendar_from_alias",
                    calendar_alias |-> calendar_alias]
        /\ result' = calendar_from_alias(calendar_alias)
        /\ UNCHANGED <<nc_files, grid, calendar>>

\* The calendars a built-in calendar is compared with: the built-in ones and
\* calendars made with an alias, built-in or not, and any functions.
OtherCalendars ==
    BuiltInCalendars \cup
    {Calendar(alias, c, d, l) :
        alias \in {"gregorian", "standard", "noleap", "mine"},
        c \in {"months_of_gregorian_calendar", "temperate_seasons", "year_cycle"},
        d \in {"days_in_month_360", "days_in_month_gregorian", "day_in_year"},
        l \in {None, Some("is_leap_feb29")}}

\* calendar == other
CallEq ==
    \E other \in OtherCalendars :
        /\ call = NoCall
        /\ call' = [op |-> "__eq__", other |-> other]
        /\ result' = Return(<<__eq__(calendar, other)>>)
        /\ UNCHANGED <<nc_files, grid, calendar>>

\* calendar != other
CallNe ==
    \E other \in OtherCalendars :
        /\ call = NoCall
        /\ call' = [op |-> "__ne__", other |-> other]
        /\ result' = Return(<<__ne__(calendar, other)>>)
        /\ UNCHANGED <<nc_files, grid, calendar>>

NextCalendar ==
    \/ CallIsLeap
    \/ CallCountDaysInYear
    \/ CallDaysInCycle
    \/ CallCalendarFromAlias
    \/ CallEq
    \/ CallNe

SpecCalendar == InitCalendar /\ [][NextCalendar]_vars

(***************************************************************************)
(* Properties of the calendars.                                             *)
(***************************************************************************)
\* year is divisible by 100 and not by 400.
CenturyException(year) == year % 100 = 0 /\ year % 400 # 0

\* What is_leap answers for the year of the call, on a calendar that has a
\* leap function.
LeapYear == is_leap(calendar, call.year) = Return(<<TRUE>>)

\* C17 as stated: count_days_in_year is 360 for 360_day, 365 for noleap and
\* 365_days_no_months, 366 for all_leap, 366 in a leap year and 365
\* otherwise for julian, proleptic_gregorian and gregorian, 12 for
\* months_only, 4 for seasons, 1 for years_only.
ClaimC17 ==
    call.op = "count_days_in_year" =>
        result = Return(<<
            CASE calendar.alias = "360_day" -> 360
              [] calendar.alias \in {"noleap", "365_days_no_months"} -> 365
              [] calendar.alias = "all_leap" -> 366
              [] calendar.alias \in {"julian", "proleptic_gregorian", "gregorian"} ->
                    IF LeapYear THEN 366 ELSE 365
              [] calendar.alias = "months_only" -> 12
              [] calendar.alias = "seasons" -> 4
              [] calendar.alias = "years_only" -> 1>>)

\* C17: the same counts, but for gregorian in 1582, the year of the reform,
\* which has 355 days, the ten days from October 5 to 14 being left out.
TheoremC17 ==
    call.op = "count_days_in_year" =>
        result = Return(<<
            CASE calendar.alias = "360_day" -> 360
              [] calendar.alias \in {"noleap", "365_days_no_months"} -> 365
              [] calendar.alias = "all_leap" -> 366
              [] calendar.alias \in {"julian", "proleptic_gregorian"} ->
                    IF LeapYear THEN 366 ELSE 365
              [] calendar.alias = "gregorian" ->
                    IF call.year = 1582 THEN 355
                    ELSE IF LeapYear THEN 366 ELSE 365
              [] calendar.alias = "months_only" -> 12
              [] calendar.alias = "seasons" -> 4
              [] calendar.alias = "years_only" -> 1>>)

WitnessC17 ==
    /\ call.op = "count_days_in_year" /\ call.year = 1582
    /\ calendar = CalGregorian
    /\ result = Return(<<355>>)

\* C18: days_in_month_gregorian(month, year) is
\* days_in_month_proleptic_gregorian(month, year) when year > 1582 or
\* year = 1582 and month > 10, the 21 days 1, 2, 3, 4, 15, ..., 31 when
\* year = 1582 and month = 10, days_in_month_julian(month, year) otherwise.
TheoremC18 ==
    (call.op = "days_in_cycle" /\ calendar = CalGregorian) =>
        LET month == call.cycle
            year == call.year
            days == Val(result.value)
        IN /\ result.kind = "return"
           /\ IF year > 1582 \/ (year = 1582 /\ month > 10)
              THEN days = days_in_month_proleptic_gregorian(month, year)
              ELSE IF year = 1582 /\ month = 10
              THEN /\ Len(days) = 21
                   /\ \A k \in 1..21 : days[k] = IF k <= 4 THEN k ELSE k + 10
              ELSE days = days_in_month_julian(month, year)

\* February 1500 has the 29 days of the Julian calendar.
WitnessC18 ==
    /\ call.op = "days_in_cycle" /\ calendar = CalGregorian
    /\ call.year = 1500 /\ call.cycle = 2
    /\ Len(Val(result.value)) = 29

\* C19: is_leap of gregorian is true exactly when the year is divisible by 4
\* and, after 1582 only, is not a century that 400 does not divide; is_leap
\* of proleptic_gregorian makes the exception of the centuries in every
\* year, is_leap of julian in none.
TheoremC19 ==
    call.op = "is_leap" =>
        LET year == call.year
        IN /\ calendar = CalGregorian =>
                result = Return(<<year % 4 = 0 /\
                                  (year > 1582 => ~CenturyException(year))>>)
           /\ calendar = CalProleptic =>
                result = Return(<<year % 4 = 0 /\ ~CenturyException(year)>>)
           /\ calendar = CalJulian =>
                result = Return(<<year % 4 = 0>>)

\* 1100 is a leap year of the gregorian calendar.
WitnessC19 ==
    /\ call.op = "is_leap" /\ calendar = CalGregorian /\ call.year = 1100
    /\ result = Return(<<TRUE>>)

\* C20: is_leap raises CalendarError in every year on months_only, seasons
\* and 365_days_no_months, and returns a boolean on the seven other
\* built-in calendars: false on years_only, 360_day and noleap, true on
\* all_leap.
TheoremC20 ==
    call.op = "is_leap" =>
        /\ calendar.alias \in {"months_only", "seasons", "365_days_no_months"}
                => result = Raise("CalendarError")
        /\ calendar.alias \in {"360_day", "noleap", "all_leap", "julian",
                               "proleptic_gregorian", "gregorian", "years_only"}
                => result \in {Return(<<TRUE>>), Return(<<FALSE>>)}
        /\ calendar.alias \in {"years_only", "360_day", "noleap"}
                => result = Return(<<FALSE>>)
        /\ calendar.alias = "all_leap" => result = Return(<<TRUE>>)

WitnessC20 ==
    /\ call.op = "is_leap" /\ calendar = CalSeasons
    /\ result = Raise("CalendarError")

\* The calendar the built-in table gives to an alias.
TableCalendar(alias) ==
    CASE alias = "360_day" -> Cal360
      [] alias \in {"noleap", "365_day"} -> Cal365
      [] alias \in {"all_leap", "366_day"} -> Cal366
      [] alias = "julian" -> CalJulian
      [] alias = "proleptic_gregorian" -> CalProleptic
      [] alias \in {"gregorian", "standard"} -> CalGregorian
      [] alias = "years_only" -> CalYearsOnly
      [] alias = "months_only" -> CalMonthsOnly
      [] alias = "seasons" -> CalSeasons
      [] alias = "365_days_no_months" -> Cal365NoMonths

TableAliases ==
    {"360_day", "noleap", "365_day", "all_leap", "366_day", "julian",
     "proleptic_gregorian", "gregorian", "standard", "years_only",
     "months_only", "seasons", "365_days_no_months"}

\* C21: calendar_from_alias returns the built-in calendar of the table for
\* each of its aliases, the same calendar for noleap and 365_day, for
\* all_leap and 366_day, for gregorian and standard, and raises
\* CalendarError for every other string.
TheoremC21 ==
    call.op = "calendar_from_alias" =>
        IF call.calendar_alias \in TableAliases
        THEN /\ result = Return(<<TableCalendar(call.calendar_alias)>>)
             /\ Val(result.value) \in BuiltInCalendars
        ELSE result = Raise("CalendarError")

WitnessC21 ==
    /\ call.op = "calendar_from_alias" /\ call.calendar_alias = "standard"
    /\ result = Return(<<CalGregorian>>)

\* C22: two calendars compare equal exactly when their aliases are equal,
\* whatever their functions, and exactly one of == and != holds of them.
TheoremC22 ==
    /\ call.op = "__eq__" =>
        /\ result = Return(<<calendar.alias = call.other.alias>>)
        /\ Val(result.value) # __ne__(calendar, call.other)
    /\ call.op = "__ne__" =>
        /\ result = Return(<<calendar.alias # call.other.alias>>)
        /\ Val(result.value) # __eq__(calendar, call.other)

\* The built-in gregorian calendar is not different from a calendar of
\* seasons that is called gregorian.
WitnessC22 ==
    /\ call.op = "__ne__" /\ calendar = CalGregorian
    /\ call.other.alias = "gregorian"
    /\ call.other.cycles_in_year = "temperate_seasons"
    /\ result = Return(<<FALSE>>)

(***************************************************************************)
(* slicetools.divide_slice.  A slice is its start, stop and step, each None *)
(* or a number.                                                             *)
(***************************************************************************)
Slice(start, stop, step) == [start |-> start, stop |-> stop, step |-> step]

\* int(np.ceil(a/float(b))) for a >= 0 and b > 0.
CeilDiv(a, b) == (a + b - 1) \div b

\* int(np.round(a/float(b))) for a >= 0 and b > 0: a half goes to the even
\* neighbour.
RoundDiv(a, b) ==
    LET q == a \div b
        r == a % b
    IN IF 2 * r < b THEN q
       ELSE IF 2 * r > b THEN q + 1
       ELSE IF q % 2 = 0 THEN q ELSE q + 1

\* The test that raises "divisions greater than number of values in slice."
DivisionsTooMany(divisions, initial_indice, final_indice, step) ==
    divisions > final_indice - initial_indice

\* NextSlice without the limit of final_indice on the stop.
NextSliceUnlimited(initial_indice, final_indice, step, num_in_slice) ==
    Slice(Some(initial_indice), Some(initial_indice + num_in_slice * step), Some(step))

\* next_slice of one turn of the loop.
NextSlice(initial_indice, final_indice, step, num_in_slice) ==
    LET stop_indice == initial_indice + num_in_slice * step
    IN Slice(Some(initial_indice),
             Some(IF stop_indice > final_indice THEN final_indice ELSE stop_indice),
             Some(step))

RECURSIVE DividedSlices(_, _, _, _, _)
\* The slices appended from the turn i of the loop on, i counting down to 1.
DividedSlices(i, num_of_values, initial_indice, final_indice, step) ==
    IF i < 1 THEN <<>>
    ELSE LET num_in_slice == RoundDiv(num_of_values, i)
         IN <<NextSlice(initial_indice, final_indice, step, num_in_slice)>>
            \o DividedSlices(i - 1, num_of_values - num_in_slice,
                             initial_indice + num_in_slice * step,
                             final_indice, step)

divide_slice(one_slice, divisions, length) ==
    LET initial_indice ==
            IF one_slice.start = None THEN 0 ELSE Val(one_slice.start)
        final_indice ==
            IF one_slice.stop = None THEN Val(length) ELSE Val(one_slice.stop)
        step == IF one_slice.step = None THEN 1 ELSE Val(one_slice.step)
    IN IF one_slice.stop = None /\ length = None THEN Raise("SliceError")
       ELSE IF DivisionsTooMany(divisions, initial_indice, final_indice, step)
       THEN Raise("SliceError")
       ELSE IF step = 0 THEN Raise("ZeroDivisionError")
       ELSE Return(DividedSlices(
                        divisions,
                        CeilDiv(final_indice - initial_indice, step),
                        initial_indice, final_indice, step))

(***************************************************************************)
(* divide_slice as a state machine: one call.                               *)
(***************************************************************************)
MaxStop == 6
MaxStep == 3
MaxDivisions == 4

InitSlice ==
    /\ nc_files = <<>>
    /\ grid = NoGrid
    /\ calendar = NoCalendar
    /\ call = NoCall
    /\ result = NoResult

CallDivideSlice ==
    \E start \in {None} \cup {Some(n) : n \in 0..2},
       stop \in {None} \cup {Some(n) : n \in 0..MaxStop},
       step \in {None} \cup {Some(n) : n \in 0..MaxStep},
       divisions \in 0..MaxDivisions, length \in {None, Some(MaxStop)} :
      LET one_slice == Slice(start, stop, step) IN
        /\ call = NoCall
        /\ call' = [op |-> "divide_slice", one_slice |-> one_slice,
                    divisions |-> divisions, length |-> length]
        /\ result' = divide_slice(one_slice, divisions, length)
        /\ UNCHANGED <<nc_files, grid, calendar>>

NextSlices == CallDivideSlice

SpecSlice == InitSlice /\ [][NextSlices]_vars

(***************************************************************************)
(* The values a slice selects, and the division as a partition.            *)
(***************************************************************************)
RECURSIVE SliceValues(_, _, _)
\* The indices start, start + step, ... below stop, in order (step > 0).
SliceValues(start, stop, step) ==
    IF start >= stop THEN <<>>
    ELSE <<start>> \o SliceValues(start + step, stop, step)

ValuesOf(s) == SliceValues(Val(s.start), Val(s.stop), Val(s.step))

RECURSIVE Concatenated(_)
Concatenated(slices) ==
    IF slices = <<>> THEN <<>>
    ELSE ValuesOf(Head(slices)) \o Concatenated(Tail(slices))

OriginalStart == IF call.one_slice.start = None THEN 0 ELSE Val(call.one_slice.start)

OriginalStop == IF call.one_slice.stop = None THEN Val(call.length) ELSE Val(call.one_slice.stop)

OriginalStep == IF call.one_slice.step = None THEN 1 ELSE Val(call.one_slice.step)

Divided == call.op = "divide_slice" /\ call.divisions >= 1 /\ OriginalStep > 0 /\ result.kind = "return"

\* C23: for a positive step and a number of divisions it accepts,
\* divide_slice returns exactly `divisions` slices that all carry the step of
\* the original slice, the first starting at its start, the last stopping at
\* its stop, each starting where the previous one stops, and together
\* selecting exactly the values of the original slice, each once, in order.
TheoremC23 ==
    Divided =>
        LET slices == result.value
        IN /\ Len(slices) = call.divisions
           /\ \A k \in 1..Len(slices) : slices[k].step = Some(OriginalStep)
           /\ slices[1].start = Some(OriginalStart)
           /\ slices[Len(slices)].stop = Some(OriginalStop)
           /\ \A k \in 2..Len(slices) : slices[k].start = slices[k - 1].stop
           /\ Concatenated(slices) = SliceValues(OriginalStart, OriginalStop, OriginalStep)

\* A slice of three values with a step of two divided in two: the half is
\* rounded to the even neighbour and the last stop is limited to the stop.
WitnessC23 ==
    /\ Divided
    /\ call.divisions = 2
    /\ OriginalStep = 2
    /\ Len(SliceValues(OriginalStart, OriginalStop, OriginalStep)) = 3
    /\ OriginalStop < OriginalStart + 3 * OriginalStep

DivideSliceCalled == call.op = "divide_slice" /\ call.divisions >= 1 /\ OriginalStep > 0 /\ ~(call.one_slice.stop = None /\ call.length = None)

NumberOfValues == Len(SliceValues(OriginalStart, OriginalStop, OriginalStep))

\* C30: divide_slice raises SliceError whenever the number of divisions is
\* greater than the number of values the slice selects, its step taken into
\* account, and otherwise every slice it returns selects at least one value.
ClaimC30 ==
    DivideSliceCalled =>
        IF call.divisions > NumberOfValues
        THEN result = Raise("SliceError")
        ELSE /\ result.kind = "return"
             /\ \A k \in 1..Len(result.value) : ValuesOf(result.value[k]) # <<>>

(***************************************************************************)
(* nearest_time between two files and within one file.                      *)
(***************************************************************************)
FirstValue(i) == ConvertedTime(nc_files, i)[1]

LastValue(i) == ConvertedTime(nc_files, i)[TimeSize(nc_files[i])]

LastIndexPair(i) == <<i - 1, TimeSize(nc_files[i]) - 1>>

\* What a call gives for a pair at a distance `gap` of t: the pair, unless a
\* threshold is given and the gap is above it.
PairWithin(pair, gap) ==
    IF Truthy(call.threshold) /\ gap > Val(call.threshold)
    THEN Raise("NotImplementedError")
    ELSE Return(pair)

InTheGapBefore(i) == LastValue(i - 1) < call.t /\ call.t < FirstValue(i)

\* C24: when t falls strictly between the end of file i-1 and the start of
\* file i, nearest_time gives (i-1, last index of file i-1) if the gap to the
\* previous end is smaller than or equal to the gap to the current start and
\* (i, 0) otherwise (a threshold below the chosen gap raises); when t equals
\* the last value of file i-1 it gives (i-1, last index) and when t equals
\* the first value of file i it gives (i, 0).  Files are 1-based here and
\* 0-based in the result.
TheoremC24 ==
    (call.op = "nearest_time" /\ AllNonEmpty) =>
        \A i \in 2..Len(nc_files) :
            LET pdiff == Abs(LastValue(i - 1) - call.t)
                ndiff == Abs(FirstValue(i) - call.t)
            IN /\ InTheGapBefore(i) =>
                     result = IF pdiff <= ndiff
                              THEN PairWithin(LastIndexPair(i - 1), pdiff)
                              ELSE PairWithin(<<i - 1, 0>>, ndiff)
               /\ call.t = LastValue(i - 1) =>
                     result = Return(LastIndexPair(i - 1))
               /\ call.t = FirstValue(i) => result = Return(<<i - 1, 0>>)

\* t half way between the end of a file and the start of the next one: the
\* end of the previous file is returned.
WitnessC24 ==
    /\ call.op = "nearest_time" /\ AllNonEmpty
    /\ Len(nc_files) = 2
    /\ InTheGapBefore(2)
    /\ call.t - LastValue(1) = FirstValue(2) - call.t
    /\ result = Return(LastIndexPair(1))

Contains(i) == TimeSize(nc_files[i]) > 0 /\ FirstValue(i) <= call.t /\ call.t <= LastValue(i)

\* The lowest local index (0-based) of file i whose time value is the
\* closest to t of the values of that file.
LowestNearest(i) ==
    LET nctime == ConvertedTime(nc_files, i)
    IN (CHOOSE k \in 1..Len(nctime) :
            /\ \A n \in 1..Len(nctime) : Abs(nctime[k] - call.t) <= Abs(nctime[n] - call.t)
            /\ \A n \in 1..(k - 1) : Abs(nctime[n] - call.t) > Abs(nctime[k] - call.t)) - 1

\* C25: when t lies in the closed interval [first value, last value] of the
\* time axis of a file and of no earlier file, nearest_time gives the index
\* of that file with the lowest local index minimising |time - t| within
\* that file (a threshold below that distance raises), and the later files
\* are not examined: a later file without time steps changes nothing.
TheoremC25 ==
    call.op = "nearest_time" =>
        \A i \in 1..Len(nc_files) :
            (/\ Contains(i)
             /\ \A j \in 1..(i - 1) : TimeSize(nc_files[j]) > 0 /\ ~Contains(j)) =>
                LET tn == LowestNearest(i)
                IN result = PairWithin(<<i - 1, tn>>, Abs(TimeAt(<<i - 1, tn>>) - call.t))

\* t at equal distances of the two values of the first file, the file after
\* it holding no time step: the lower index of the first file is returned.
WitnessC25 ==
    /\ call.op = "nearest_time"
    /\ Len(nc_files) = 2
    /\ TimeSize(nc_files[1]) = 2 /\ TimeSize(nc_files[2]) = 0
    /\ call.t - FirstValue(1) = LastValue(1) - call.t
    /\ result = Return(<<0, 0>>)

(***************************************************************************)
(* The slices of the rectilinear subsetter, axis by axis.                   *)
(***************************************************************************)
Subsetted == call.op = "subdomain_grid_slices_or_points_indices"

\* (lower, upper) of the bounds of the polygon on axis a (1: longitude,
\* 2: latitude).
BoundsOn(a) == <<call.geometry.bounds[a], call.geometry.bounds[a + 2]>>

\* The bounds of the polygon on axis a lie inside the range of the vertices
\* and hold no vertex.
NarrowerThanOneCell(a) ==
    LET v == GridVertices[a]
    IN /\ ArrayMin(v) <= BoundsOn(a)[1] /\ BoundsOn(a)[2] <= ArrayMax(v)
       /\ IndicesWithin(v, BoundsOn(a)[1], BoundsOn(a)[2]) = {}

\* The vertices k and k + 1 (0-based) of v are on either side of the bounds.
Straddles(v, k, lower, upper) ==
    /\ k >= 0 /\ k + 1 <= v.shape[1] - 1
    /\ \/ v.data[k + 1] <= lower /\ upper <= v.data[k + 2]
       \/ v.data[k + 2] <= lower /\ upper <= v.data[k + 1]

\* C26: when the bounds of the polygon on an axis lie inside the range of
\* the vertices and hold no vertex of that axis, the subsetter returns on
\* that axis the slice (k, k+1) of the one cell whose vertices k and k+1 are
\* on either side of the bounds, on evenly and unevenly spaced axes alike.
ClaimC26 ==
    (Subsetted /\ result.kind = "return") =>
        \A a \in 1..2 :
            NarrowerThanOneCell(a) =>
                /\ result.value[a][2] = result.value[a][1] + 1
                /\ Straddles(GridVertices[a], result.value[a][1],
                             BoundsOn(a)[1], BoundsOn(a)[2])


\* C28: whenever the rectilinear subsetter returns, each slice designates a
\* range of existing cells that is not empty: 0 <= start < stop <= (number
\* of vertices of the axis) - 1, also when the bounds of the polygon hold
\* the first or the last vertex of the axis.
ClaimC28 ==
    (Subsetted /\ result.kind = "return") =>
        \A a \in 1..2 :
            /\ 0 <= result.value[a][1]
            /\ result.value[a][1] < result.value[a][2]
            /\ result.value[a][2] <= GridVertices[a].shape[1] - 1

\* C29: the rectilinear subsetter treats the two axes alike: it raises
\* GeogridError only if, on the longitude axis or on the latitude axis, the
\* bounds of the polygon are entirely below the lowest vertex or entirely
\* above the highest one; bounds that overlap the range of the vertices on
\* both axes give slices.
ClaimC29 ==
    Subsetted =>
        IF \/ EntirelyOutside(GridVertices[1], BoundsOn(1)[1], BoundsOn(1)[2])
           \/ EntirelyOutside(GridVertices[2], BoundsOn(2)[1], BoundsOn(2)[2])
        THEN result = Raise("GeogridError")
        ELSE result.kind = "return"

(***************************************************************************)
(* geogrid.spatial_weighted_average on rectilinear vertices.  The polygons  *)
(* given are rectangles along the axes, box(minx, miny, maxx, maxy), so a   *)
(* geometry is its bounds; a weight is a fraction <<numerator,              *)
(* denominator>> in lowest terms.                                           *)
(***************************************************************************)
RECURSIVE GCD(_, _)
GCD(a, b) == IF b = 0 THEN a ELSE GCD(b, a % b)

Fraction(n, d) == LET g == GCD(n, d) IN <<n \div g, d \div g>>

\* The element of a set of one element: Once({F(x) : x \in {e}}) is F(e)
\* with e evaluated once, however often F uses it.
Once(S) == CHOOSE x \in S : TRUE

FractionSum(p, q) ==
    Once({Fraction(x[1] * y[2] + y[1] * x[2], x[2] * y[2]) : x \in {p}, y \in {q}})

FractionQuotient(p, q) == Fraction(p[1] * q[2], p[2] * q[1])

\* 0/0 of floating point numbers.
NaN == <<0, 0>>

\* a[i] of a numpy array of one dimension: a negative i counts from the
\* end, and an i outside -n..n-1 raises IndexError.
IndexInRange(i, n) == i >= 0 - n /\ i <= n - 1

Item(a, i) == IF i >= 0 THEN a.data[i + 1] ELSE a.data[a.shape[1] + i + 1]

\* Polygon([(x1, y1), (x2, y1), (x2, y2), (x1, y2)]): a rectangle, whatever
\* the order of its corners.
Rectangle(x1, y1, x2, y2) ==
    [type |-> "Polygon",
     bounds |-> <<IF x1 < x2 THEN x1 ELSE x2, IF y1 < y2 THEN y1 ELSE y2,
                  IF x1 < x2 THEN x2 ELSE x1, IF y1 < y2 THEN y2 ELSE y1>>]

\* pol1.intersection(geometry) of two rectangles along the axes: a polygon,
\* a line where they share part of an edge, a point where they share a
\* corner, an empty collection where they are apart.
Intersection(pol1, geometry) ==
    LET minx == IF pol1.bounds[1] > geometry.bounds[1]
                THEN pol1.bounds[1] ELSE geometry.bounds[1]
        miny == IF pol1.bounds[2] > geometry.bounds[2]
                THEN pol1.bounds[2] ELSE geometry.bounds[2]
        maxx == IF pol1.bounds[3] < geometry.bounds[3]
                THEN pol1.bounds[3] ELSE geometry.bounds[3]
        maxy == IF pol1.bounds[4] < geometry.bounds[4]
                THEN pol1.bounds[4] ELSE geometry.bounds[4]
    IN [type |-> IF maxx < minx \/ maxy < miny THEN "GeometryCollection"
                 ELSE IF maxx = minx /\ maxy = miny THEN "Point"
                 ELSE IF maxx = minx \/ maxy = miny THEN "LineString"
                 ELSE "Polygon",
        bounds |-> <<minx, miny, maxx, maxy>>]

\* The area of a polygon: of the rectangle, in square tenths of a degree
\* (the equal-area projection keeps the ratio of the areas within a cell up
\* to the curvature of the cell).  Only a polygon has a boundary with a
\* sequence of coordinates: the boundary of a line is its two end points,
\* that of a point or of an empty collection is empty, and .coords of these
\* raises NotImplementedError.
lon_lat_polygon_area(lon_lat_polygon) ==
    IF lon_lat_polygon.type = "Polygon"
    THEN Return((lon_lat_polygon.bounds[3] - lon_lat_polygon.bounds[1])
                * (lon_lat_polygon.bounds[4] - lon_lat_polygon.bounds[2]))
    ELSE Raise("NotImplementedError")

RECURSIVE WeightsLoop(_, _, _, _, _, _)
\* The loops from turn k on of the turns (i, j), weights being the array
\* filled so far (its rows are latitudes).
WeightsLoop(lon_vertices, lat_vertices, geometry, turns, k, weights) ==
    IF k > Len(turns) THEN Return(weights)
    ELSE LET i == turns[k][1]
             j == turns[k][2]
             rows == Len(weights)
             columns == Len(weights[1])
         IN IF ~(/\ IndexInRange(i, lon_vertices.shape[1])
                 /\ IndexInRange(i + 1, lon_vertices.shape[1])
                 /\ IndexInRange(j, lat_vertices.shape[1])
                 /\ IndexInRange(j + 1, lat_vertices.shape[1]))
            THEN Raise("IndexError")
            ELSE LET pol1 == Rectangle(Item(lon_vertices, i), Item(lat_vertices, j),
                                       Item(lon_vertices, i + 1), Item(lat_vertices, j + 1))
                     cell_area == lon_lat_polygon_area(pol1)
                     area == lon_lat_polygon_area(Intersection(pol1, geometry))
                 IN IF cell_area.kind = "raise" THEN cell_area
                    ELSE IF area.kind = "raise" THEN area
                    ELSE IF ~(IndexInRange(j, rows) /\ IndexInRange(i, columns))
                    THEN Raise("IndexError")
                    ELSE LET row == IF j >= 0 THEN j + 1 ELSE rows + j + 1
                             column == IF i >= 0 THEN i + 1 ELSE columns + i + 1
                         IN Once({WeightsLoop(lon_vertices, lat_vertices, geometry,
                                              turns, next, filled) :
                                     next \in {k + 1},
                                     filled \in {[weights EXCEPT ![row][column] =
                                                    Fraction(area.value, cell_area.value)]}})

RECURSIVE SumOfWeights(_, _)
\* weights.sum(), from the element k on in row order.
SumOfWeights(weights, k) ==
    LET columns == Len(weights[1])
    IN IF k > Len(weights) * columns THEN <<0, 1>>
       ELSE FractionSum(weights[((k - 1) \div columns) + 1][((k - 1) % columns) + 1],
                        SumOfWeights(weights, k + 1))

\* The array weights of spatial_weighted_average once divided by its sum
\* (NaN where the sum is 0), or what is raised before.
Weights(lon_vertices, lat_vertices, geometry) ==
    Once({IF slices.kind = "raise" THEN slices
          ELSE LET ni == slices.value[1][2] - slices.value[1][1]
                   nj == slices.value[2][2] - slices.value[2][1]
               IN Once({IF weights.kind = "raise" THEN weights
                        ELSE Once({Return([j \in 1..nj |-> [i \in 1..ni |->
                                      IF sum[1] = 0 THEN NaN
                                      ELSE FractionQuotient(weights.value[j][i], sum)]]) :
                                   sum \in {SumOfWeights(weights.value, 1)}}) :
                        weights \in
                          {WeightsLoop(lon_vertices, lat_vertices, geometry, turns, 1, zeros) :
                             \* np.zeros and the turns (i, j) of the two loops, in
                             \* their order
                             zeros \in {[j \in 1..nj |-> [i \in 1..ni |-> <<0, 1>>]]},
                             turns \in {[k \in 1..(ni * nj) |->
                                          <<slices.value[1][1] + ((k - 1) \div nj),
                                            slices.value[2][1] + ((k - 1) % nj)>>]}}}) :
          slices \in {subdomain_grid_slices_or_points_indices(
                         lon_vertices, lat_vertices, geometry,
                         Some("rectilinear_2d_vertices"), None, None)}})

\* The indices (0-based, in order) that slice(start, stop) takes of an axis
\* of n elements: a negative start counts from the end and both ends are
\* limited to the axis.
SliceIndices(start, stop, n) ==
    LET Limited(x) == IF x < 0 THEN (IF x + n < 0 THEN 0 ELSE x + n)
                      ELSE IF x > n THEN n ELSE x
    IN [k \in 1..(IF Limited(stop) > Limited(start)
                  THEN Limited(stop) - Limited(start) ELSE 0) |->
           Limited(start) + k - 1]

RECURSIVE SumOfProducts(_, _, _, _, _, _)
\* (field*weights).sum() from the element k on of the broadcast product of
\* `rows` by `columns` elements; field holds whole numbers.
SumOfProducts(field, weights, rows, columns, k, nan) ==
    IF k > rows * columns THEN <<0, 1>>
    ELSE LET r == ((k - 1) \div columns) + 1
             c == ((k - 1) % columns) + 1
             f == field[IF Len(field) = 1 THEN 1 ELSE r][IF Len(field[1]) = 1 THEN 1 ELSE c]
             w == weights[IF Len(weights) = 1 THEN 1 ELSE r][IF Len(weights[1]) = 1 THEN 1 ELSE c]
         IN IF nan THEN NaN
            ELSE FractionSum(Fraction(f * w[1], w[2]),
                             SumOfProducts(field, weights, rows, columns, k + 1, nan))

\* spatial_indices keeps its default, None, and the vertices are arrays of
\* one dimension: grid_type is 'rectilinear_2d_vertices'.
spatial_weighted_average(lon_vertices, lat_vertices, geometry, field) ==
    Once({IF weights.kind = "raise" THEN weights
          ELSE LET w == weights.value
                   \* two lengths that numpy broadcasts together: equal, or
                   \* one of them 1
                   Broadcastable(a, b) == a = b \/ a = 1 \/ b = 1
                   BroadcastLength(a, b) == IF a = 1 THEN b ELSE a
               IN Once({IF ~(/\ Broadcastable(Len(js), Len(w))
                            /\ Broadcastable(Len(is), Len(w[1])))
                        THEN Raise("ValueError")
                        ELSE Once({Return(SumOfProducts(
                                      sliced, w, BroadcastLength(Len(js), Len(w)),
                                      BroadcastLength(Len(is), Len(w[1])), 1,
                                      w[1][1] = NaN)) :
                                   sliced \in
                                     {[r \in 1..(IF Len(js) = 0 THEN 1 ELSE Len(js)) |->
                                        [c \in 1..(IF Len(is) = 0 THEN 1 ELSE Len(is)) |->
                                           IF Len(js) = 0 \/ Len(is) = 0 THEN 0
                                           ELSE field.data[js[r] + 1][is[c] + 1]]]}}) :
                        js \in {SliceIndices(slices[2][1], slices[2][2], field.shape[1])},
                        is \in {SliceIndices(slices[1][1], slices[1][2], field.shape[2])}}) :
          weights \in {Weights(lon_vertices, lat_vertices, geometry)},
          slices \in {subdomain_grid_slices_or_points_indices(
                         lon_vertices, lat_vertices, geometry,
                         Some("rectilinear_2d_vertices"), None, None).value}})

(***************************************************************************)
(* spatial_weighted_average as a state machine: one call on a grid of       *)
(* vertices and on the field of its cells.                                  *)
(***************************************************************************)
\* The bounds of the polygons on one axis: across the lowest vertex, within
\* the first cell, around the vertex at 1 degree, from that vertex into the
\* second cell, within the second cell, from within the first cell to
\* beyond every axis.
AverageIntervals ==
    {<<Deg(0 - 1), 5>>, <<3, 6>>, <<5, 15>>, <<Deg(1), 15>>, <<15, 20>>,
     <<5, Deg(100)>>}

\* The field of the cells of a grid: 100 * row + column, rows being
\* latitudes.
FieldOf(g) ==
    Array2([j \in 1..(g.latitudes.shape[1] - 1) |->
              [i \in 1..(g.longitudes.shape[1] - 1) |-> 100 * (j - 1) + (i - 1)]])

InitAverage ==
    /\ nc_files = <<>>
    /\ grid \in {g \in SubsetGrids : Len(g.longitudes.shape) = 1}
    /\ calendar = NoCalendar
    /\ call = NoCall
    /\ result = NoResult

CallSpatialWeightedAverage ==
    \E x \in AverageIntervals, y \in AverageIntervals :
      LET geometry == [bounds |-> <<x[1], y[1], x[2], y[2]>>] IN
        /\ call = NoCall
        /\ call' = [op |-> "spatial_weighted_average", geometry |-> geometry,
                    field |-> FieldOf(grid)]
        /\ result' = spatial_weighted_average(grid.longitudes, grid.latitudes,
                                              geometry, FieldOf(grid))
        /\ UNCHANGED <<nc_files, grid, calendar>>

NextAverage == CallSpatialWeightedAverage

SpecAverage == InitAverage /\ [][NextAverage]_vars

(***************************************************************************)
(* The weights of the cells that only touch the polygon.                    *)
(***************************************************************************)
Averaged == call.op = "spatial_weighted_average"

AverageSlices ==
    subdomain_grid_slices_or_points_indices(
        grid.longitudes, grid.latitudes, call.geometry,
        Some("rectilinear_2d_vertices"), None, None)

\* The cell (i, j) of the grid, 0-based.
CellOf(i, j) ==
    Rectangle(grid.longitudes.data[i + 1], grid.latitudes.data[j + 1],
              grid.longitudes.data[i + 2], grid.latitudes.data[j + 2])

\* The cells of the slices that exist in the grid.
CandidateCells ==
    {c \in (AverageSlices.value[1][1]..(AverageSlices.value[1][2] - 1))
           \X (AverageSlices.value[2][1]..(AverageSlices.value[2][2] - 1)) :
        /\ c[1] >= 0 /\ c[1] <= grid.longitudes.shape[1] - 2
        /\ c[2] >= 0 /\ c[2] <= grid.latitudes.shape[1] - 2}

Degenerate(c) == Intersection(CellOf(c[1], c[2]), call.geometry).type \in {"LineString", "Point"}

\* C27: in spatial_weighted_average, on rectilinear vertices as on irregular
\* ones, a candidate cell whose intersection with the polygon is a line or a
\* point gets the weight zero and the computation completes, the weights of
\* the candidate cells then summing to 1.  (Stated on rectilinear vertices,
\* for the calls whose slices start at the first cell, where the array of
\* the weights is indexed as the loops count.)
ClaimC27 ==
    (/\ Averaged
     /\ AverageSlices.kind = "return"
     /\ AverageSlices.value[1][1] = 0 /\ AverageSlices.value[2][1] = 0
     /\ \E c \in CandidateCells : Degenerate(c)) =>
        LET weights == Weights(grid.longitudes, grid.latitudes, call.geometry)
        IN /\ result.kind = "return"
           /\ weights.kind = "return"
           /\ \A c \in CandidateCells :
                 Degenerate(c) => weights.value[c[2] + 1][c[1] + 1] = <<0, 1>>
           /\ SumOfWeights(weights.value, 1) = <<1, 1>>

=============================================================================
